---- MODULE Spec2Model ----
(***************************************************************************)
(* Model of the RSS feed parser of stacks-pc20 (src/src/lib/rssParser.ts): *)
(* the retry wrapper withRetry, the single-feed extractor parseAlbumFeed,  *)
(* the batch aggregator parseMultipleFeedsInternal and the publisher-feed  *)
(* resolver parsePublisherFeed / parsePublisherFeedAlbums.                 *)
(*                                                                         *)
(* JavaScript runs one continuation at a time, so every action below is    *)
(* one continuation: the code that runs from the settling of a promise (a  *)
(* fetch, a timer, a join) up to the next await.                           *)
(***************************************************************************)
EXTENDS Integers, Sequences, FiniteSets, TLC

VARIABLES
  rt,         \* the frame of a stand-alone withRetry(fn, options) call
  ac,         \* a stand-alone parseAlbumFeed(feedUrl) call
  mf,         \* a parseMultipleFeedsInternal(feedUrls) call
  racy,       \* the feed urls whose fetches settle on their own
  pub,        \* a parsePublisherFeed / parsePublisherFeedAlbums call
  pf          \* a stand-alone call of a pure helper: its input and its result

vars == <<rt, ac, mf, racy, pub, pf>>

(***************************************************************************)
(* Promise outcomes.                                                       *)
(***************************************************************************)
Pending == [status |-> "pending"]
Fulfilled(v) == [status |-> "fulfilled", value |-> v]
Rejected(e) == [status |-> "rejected", reason |-> e]

\* No pure helper is being called.
NoApply == [input |-> <<>>, output |-> <<>>, done |-> FALSE]

(***************************************************************************)
(* Bounds of the stand-alone withRetry runs.                               *)
(***************************************************************************)
MaxM == 4
Delays == {1000, 300}
FnValues == {"v1", "v2"}
FnErrors == {"e1", "e2"}
FnOutcomes == {Fulfilled(v) : v \in FnValues} \cup {Rejected(e) : e \in FnErrors}

(***************************************************************************)
(* withRetry (rssParser.ts 86-114).  A frame is the state of one call:     *)
(* the options, the loop variable attempt, lastError, where the call is    *)
(* suspended (pc) and the promise it returned (outcome).  trace, fnLog     *)
(* and calls record what the call did: the calls of fn, the calls of       *)
(* onRetry and the timers it set, in order, and how each fn() settled.     *)
(***************************************************************************)
Undefined == "undefined"

backoffDelayLinear(delay, attempt) == delay * attempt

\* const backoffDelay = delay * Math.pow(2, attempt - 1)
backoffDelay(delay, attempt) == delay * 2^(attempt - 1)

\* Entry of withRetry up to the first await: the loop is entered when
\* 1 <= maxRetries and fn is called; otherwise line 113 throws lastError,
\* which was never assigned.
RetryStart(m, d, hasOnRetry) ==
  IF 1 <= m
  THEN [maxRetries |-> m, delay |-> d, onRetry |-> hasOnRetry, attempt |-> 1,
        lastError |-> Undefined, pc |-> "call", timer |-> 0,
        outcome |-> Pending, calls |-> 1, fnLog |-> <<>>,
        trace |-> << <<"call", 1>> >>]
  ELSE [maxRetries |-> m, delay |-> d, onRetry |-> hasOnRetry, attempt |-> 1,
        lastError |-> Undefined, pc |-> "settled", timer |-> 0,
        outcome |-> Rejected(Undefined), calls |-> 0, fnLog |-> <<>>,
        trace |-> <<>>]

RetryOnSettleFirstError(f, o) ==
  IF o.status = "fulfilled"
  THEN [f EXCEPT !.pc = "settled", !.outcome = Fulfilled(o.value),
                 !.fnLog = Append(@, o)]
  ELSE LET g == [f EXCEPT !.lastError = IF f.fnLog = <<>> THEN o.reason
                                        ELSE f.lastError,
                          !.fnLog = Append(@, o)]
       IN IF f.attempt = f.maxRetries
          THEN [g EXCEPT !.pc = "settled", !.outcome = Rejected(g.lastError)]
          ELSE [g EXCEPT !.pc = "backoff",
                         !.timer = backoffDelay(f.delay, f.attempt),
                         !.trace = @ \o
                            (IF f.onRetry THEN << <<"onRetry", f.attempt>> >>
                                          ELSE <<>>)
                            \o << <<"wait", backoffDelay(f.delay, f.attempt)>> >>]

\* The promise of fn() settled with outcome o: line 95 returns its value, or
\* the catch block of lines 96-110 runs up to the await of the backoff timer.
RetryOnSettle(f, o) ==
  IF o.status = "fulfilled"
  THEN [f EXCEPT !.pc = "settled", !.outcome = Fulfilled(o.value),
                 !.fnLog = Append(@, o)]
  ELSE LET g == [f EXCEPT !.lastError = o.reason, !.fnLog = Append(@, o)]
       IN IF f.attempt = f.maxRetries
          THEN [g EXCEPT !.pc = "settled", !.outcome = Rejected(g.lastError)]
          ELSE [g EXCEPT !.pc = "backoff",
                         !.timer = backoffDelay(f.delay, f.attempt),
                         !.trace = @ \o
                            (IF f.onRetry THEN << <<"onRetry", f.attempt>> >>
                                          ELSE <<>>)
                            \o << <<"wait", backoffDelay(f.delay, f.attempt)>> >>]

\* The backoff timer fired: attempt++ and, the loop condition holding (the
\* catch block left the loop at attempt = maxRetries), fn is called again.
RetryOnTimer(f) ==
  [f EXCEPT !.attempt = f.attempt + 1, !.pc = "call", !.timer = 0,
            !.calls = f.calls + 1,
            !.trace = Append(@, <<"call", f.attempt + 1>>)]

(***************************************************************************)
(* Strings.  A string is the sequence of its characters, each a string of  *)
(* length one; the operators below are the String and Number methods the   *)
(* helpers call.                                                           *)
(***************************************************************************)
Digits == <<"0", "1", "2", "3", "4", "5", "6", "7", "8", "9">>

IsDigit(c) == \E d \in 1..Len(Digits) : Digits[d] = c
DigitValue(c) == (CHOOSE d \in 1..Len(Digits) : Digits[d] = c) - 1
IsSpace(c) == c = " "

\* String.prototype.trim.
RECURSIVE TrimStart(_)
TrimStart(s) ==
  IF s # <<>> /\ IsSpace(Head(s)) THEN TrimStart(Tail(s)) ELSE s

RECURSIVE TrimEnd(_)
TrimEnd(s) ==
  IF s # <<>> /\ IsSpace(s[Len(s)])
  THEN TrimEnd(SubSeq(s, 1, Len(s) - 1)) ELSE s

Trim(s) == TrimEnd(TrimStart(s))

\* /^\d+$/.test(s), line 146.
AllDigits(s) == s # <<>> /\ \A k \in 1..Len(s) : IsDigit(s[k])

\* The number a string of decimal digits denotes.
RECURSIVE DigitsValue(_)
DigitsValue(s) ==
  IF s = <<>> THEN 0
  ELSE 10 * DigitsValue(SubSeq(s, 1, Len(s) - 1)) + DigitValue(s[Len(s)])

\* The longest prefix of s made of decimal digits.
RECURSIVE DigitPrefix(_)
DigitPrefix(s) ==
  IF s # <<>> /\ IsDigit(Head(s))
  THEN <<Head(s)>> \o DigitPrefix(Tail(s)) ELSE <<>>

NaN == [nan |-> TRUE, n |-> 0]
Num(n) == [nan |-> FALSE, n |-> n]

\* parseInt(s) without a radix: leading white space is skipped, then an
\* optional sign, then the longest run of decimal digits; the rest of the
\* string is ignored, and the result is NaN when there is no digit.  (The
\* prefix 0x, which switches to radix 16, needs a character x.)
parseInt(s) ==
  LET t == TrimStart(s)
      signed == t # <<>> /\ Head(t) \in {"-", "+"}
      ds == DigitPrefix(IF signed THEN Tail(t) ELSE t)
  IN IF ds = <<>> THEN NaN
     ELSE IF signed /\ Head(t) = "-" THEN Num(0 - DigitsValue(ds))
     ELSE Num(DigitsValue(ds))

\* Number.prototype.toString of a non-negative integer.
RECURSIVE NumberToString(_)
NumberToString(n) ==
  IF n < 10 THEN <<Digits[n + 1]>>
  ELSE NumberToString(n \div 10) \o <<Digits[(n % 10) + 1]>>

PadStartNone(s, len, c) == s

\* String.prototype.padStart(len, c).
PadStart(s, len, c) ==
  IF Len(s) >= len THEN s ELSE [k \in 1..(len - Len(s)) |-> c] \o s

\* String.prototype.includes(c).
Includes(s, c) == \E k \in 1..Len(s) : s[k] = c

\* String.prototype.split(sep) for a separator of one character.
RECURSIVE Split(_, _)
Split(s, sep) ==
  IF ~Includes(s, sep) THEN <<s>>
  ELSE LET k == CHOOSE j \in 1..Len(s) :
                  s[j] = sep /\ \A i \in 1..(j - 1) : s[i] # sep
       IN <<SubSeq(s, 1, k - 1)>> \o Split(SubSeq(s, k + 1, Len(s)), sep)

(***************************************************************************)
(* cleanHtmlContent (rssParser.ts 119-133).                                *)
(***************************************************************************)
\* String.prototype.replace(/pat/g, rep) for a pattern that is a literal
\* text: the occurrences are found from left to right, without overlap,
\* and the text put in place of one is not searched again.
RECURSIVE ReplaceAll(_, _, _)
ReplaceAll(s, pat, rep) ==
  IF Len(s) < Len(pat) THEN s
  ELSE IF SubSeq(s, 1, Len(pat)) = pat
  THEN rep \o ReplaceAll(SubSeq(s, Len(pat) + 1, Len(s)), pat, rep)
  ELSE <<Head(s)>> \o ReplaceAll(Tail(s), pat, rep)

RECURSIVE RemoveTagsUnclosed(_)
RemoveTagsUnclosed(s) ==
  IF s = <<>> THEN <<>>
  ELSE IF Head(s) # "<" THEN <<Head(s)>> \o RemoveTagsUnclosed(Tail(s))
  ELSE IF ~Includes(s, ">") THEN <<>>
  ELSE LET k == CHOOSE j \in 1..Len(s) :
                  s[j] = ">" /\ \A i \in 1..(j - 1) : s[i] # ">"
       IN RemoveTagsUnclosed(SubSeq(s, k + 1, Len(s)))

\* .replace(/<[^>]*>/g, ''), line 123: from a '<' up to the first '>' after
\* it; a '<' that no '>' follows stays.
RECURSIVE RemoveTags(_)
RemoveTags(s) ==
  IF s = <<>> THEN <<>>
  ELSE IF Head(s) = "<" /\ Includes(s, ">")
  THEN LET k == CHOOSE j \in 1..Len(s) :
                  s[j] = ">" /\ \A i \in 1..(j - 1) : s[i] # ">"
       IN RemoveTags(SubSeq(s, k + 1, Len(s)))
  ELSE <<Head(s)>> \o RemoveTags(Tail(s))

\* The entities of lines 124-131 in the order of the calls, each with the
\* character that replaces it.
Entities ==
  << [name |-> <<"&", "n", "b", "s", "p", ";">>, char |-> " "],
     [name |-> <<"&", "a", "m", "p", ";">>, char |-> "&"],
     [name |-> <<"&", "l", "t", ";">>, char |-> "<"],
     [name |-> <<"&", "g", "t", ";">>, char |-> ">"],
     [name |-> <<"&", "q", "u", "o", "t", ";">>, char |-> "\""],
     [name |-> <<"&", "#", "3", "9", ";">>, char |-> "'"],
     [name |-> <<"&", "#", "x", "2", "7", ";">>, char |-> "'"],
     [name |-> <<"&", "a", "p", "o", "s", ";">>, char |-> "'"] >>

\* The chain of replace calls of lines 124-131 from the k-th on: each call
\* works on the result of the call before it.
RECURSIVE DecodeFrom(_, _)
DecodeFrom(s, k) ==
  IF k > Len(Entities) THEN s
  ELSE DecodeFrom(ReplaceAll(s, Entities[k].name, <<Entities[k].char>>), k + 1)

\* The result is undefined, <<>>, for a content that is falsy (null,
\* undefined or ''), and <<text>> otherwise; content is <<>> for null or
\* undefined and <<text>> for a string.
cleanHtmlContent(content) ==
  IF content = <<>> \/ content[1] = <<>> THEN <<>>
  ELSE <<Trim(DecodeFrom(RemoveTags(content[1]), 1))>>

(***************************************************************************)
(* normalizeDuration (rssParser.ts 138-182).                               *)
(***************************************************************************)
\* '0:00', lines 140 and 181.
ZeroDuration == <<"0", ":", "0", "0">>

\* `${mins}:${secs.toString().padStart(2, '0')}`, lines 151, 162 and 175.
MinSec(mins, secs) ==
  NumberToString(mins) \o <<":">> \o PadStart(NumberToString(secs), 2, "0")

TotalMinutesOfHundred(hours, mins) == hours * 100 + mins

\* const totalMinutes = hours * 60 + mins, line 171.
TotalMinutes(hours, mins) == hours * 60 + mins

\* The branches in the order of the code.  An all-digit string whose value
\* is 0 enters the first branch, fails seconds > 0 and, the else-if being
\* skipped, reaches the last return with the string unchanged.  The second
\* parameter, trackTitle, is only logged.
normalizeDuration(duration) ==
  IF duration = <<>> \/ Trim(duration) = <<>> THEN ZeroDuration
  ELSE
    LET durationStr == Trim(duration)
        parts == Split(durationStr, ":")
    IN IF AllDigits(durationStr)
       THEN LET seconds == parseInt(durationStr)
            IN IF ~seconds.nan /\ seconds.n > 0
               THEN MinSec(seconds.n \div 60, seconds.n % 60)
               ELSE durationStr
       ELSE IF ~Includes(durationStr, ":") THEN durationStr
       ELSE IF Len(parts) = 2
       THEN LET mins == parseInt(parts[1])
                secs == parseInt(parts[2])
            IN IF /\ ~mins.nan /\ ~secs.nan
                  /\ mins.n >= 0 /\ secs.n >= 0 /\ secs.n < 60
               THEN MinSec(mins.n, secs.n)
               ELSE durationStr
       ELSE IF Len(parts) = 3
       THEN LET hours == parseInt(parts[1])
                mins == parseInt(parts[2])
                secs == parseInt(parts[3])
            IN IF /\ ~hours.nan /\ ~mins.nan /\ ~secs.nan
                  /\ hours.n >= 0 /\ mins.n >= 0 /\ mins.n < 60
                  /\ secs.n >= 0 /\ secs.n < 60
               THEN MinSec(TotalMinutes(hours.n, mins.n), secs.n)
               ELSE durationStr
       ELSE durationStr

(***************************************************************************)
(* extractCoverArt (rssParser.ts 187-268).                                 *)
(*                                                                         *)
(* A string that may name an image is the record of the components a URL   *)
(* parser would find in it; a string that is not a URL has no scheme.  A   *)
(* value that may be null is a sequence: <<>> for null, <<v>> for v.       *)
(***************************************************************************)
Text(scheme, host, path, query, fragment) ==
  [scheme |-> scheme, host |-> host, path |-> path, query |-> query,
   fragment |-> fragment]

\* '' and a string of white space.
EmptyString == Text("", "", "", "", "")
BlankString == Text("", "", " ", "", "")

\* String.prototype.trim: of the strings above only the blank one has white
\* space at its ends.
TrimText(s) == IF s = BlankString THEN EmptyString ELSE s

\* s || null: '' is falsy, as is the null that getAttribute returns for an
\* attribute that is absent; both are EmptyString here.
OrNull(s) == IF s = EmptyString THEN <<>> ELSE <<s>>

\* a || b on values that may be null.
FirstOf(a, b) == IF a # <<>> THEN a ELSE b

\* Does new URL(s), line 259, return?  Without a base it throws a
\* TypeError for a string that has no scheme.
UrlParses(s) == s.scheme # ""

BareUrlKeepQuery(url) == [url EXCEPT !.fragment = ""]

\* `${url.protocol}//${url.host}${url.pathname}`, line 260.
BareUrl(url) == [url EXCEPT !.query = "", !.fragment = ""]

\* type?.startsWith('image/'), lines 234 and 243.
ImageTypes == {"image/jpeg", "image/png"}
StartsWithImage(type) == type \in ImageTypes

\* The channel: its own itunes:image element (the href), whether that
\* element stands after the items in the document, its image element (the
\* text of the url child, the attributes url and href) and the src of the
\* first img tag in the text of its description.
Channel(itunes, itunesLast, image, descriptionImg) ==
  [itunes |-> itunes, itunesLast |-> itunesLast, image |-> image,
   descriptionImg |-> descriptionImg]

\* An item: the href of its first itunes:image, and the type and url of
\* its first media:content and of its first enclosure.
CoverItem(itunes, media, enclosure) ==
  [itunes |-> itunes, media |-> media, enclosure |-> enclosure]

RECURSIVE ItemItunesImages(_)
ItemItunesImages(items) ==
  IF items = <<>> THEN <<>>
  ELSE Head(items).itunes \o ItemItunesImages(Tail(items))

\* channel.getElementsByTagName('itunes:image'), line 191: the elements of
\* that name among all the descendants of the channel, in document order.
\* The items are children of the channel, so their itunes:image elements
\* are in the list.
ChannelItunesImages(channel, items) ==
  IF channel.itunesLast THEN ItemItunesImages(items) \o channel.itunes
  ELSE channel.itunes \o ItemItunesImages(items)

\* Lines 190-199: the href of the first element of the list.  The selector
\* of line 194 finds nothing the list does not hold.
Method1(channel, items) ==
  LET found == ChannelItunesImages(channel, items)
  IN IF found = <<>> THEN <<>> ELSE OrNull(found[1])

\* Lines 202-207: channel.querySelector('image url').
Method2(channel) ==
  IF channel.image = <<>> \/ channel.image[1].urlText = <<>> THEN <<>>
  ELSE OrNull(TrimText(channel.image[1].urlText[1]))

\* Lines 210-218: channel.querySelector('image').
Method3(channel) ==
  IF channel.image = <<>> THEN <<>>
  ELSE LET altImageElement == channel.image[1]
       IN IF altImageElement.url # EmptyString
          THEN OrNull(altImageElement.url)
          ELSE OrNull(altImageElement.href)

\* Lines 233-236 and 242-245: the url of a media:content or enclosure
\* element whose type starts with image/.
ImageUrlOf(element) ==
  IF element # <<>> /\ StartsWithImage(element[1].type)
  THEN OrNull(element[1].url) ELSE <<>>

\* Lines 221-246.
Method4(items) ==
  IF items = <<>> THEN <<>>
  ELSE LET firstItem == items[1]
           itemImage == IF firstItem.itunes = <<>> THEN <<>>
                        ELSE OrNull(firstItem.itunes[1])
       IN FirstOf(itemImage,
                  FirstOf(ImageUrlOf(firstItem.media),
                          ImageUrlOf(firstItem.enclosure)))

\* Lines 249-254.
Method5(channel) == channel.descriptionImg

\* The methods in the order of the code, each run only while coverArt is
\* null, then lines 257-265: the candidate is reduced to protocol, host and
\* pathname when it parses as a URL and kept as it is when new URL throws.
extractCoverArt(channel, items) ==
  LET coverArt ==
        FirstOf(Method1(channel, items),
                FirstOf(Method2(channel),
                        FirstOf(Method3(channel),
                                FirstOf(Method4(items), Method5(channel)))))
  IN IF coverArt # <<>> /\ UrlParses(coverArt[1])
     THEN <<BareUrl(coverArt[1])>>
     ELSE coverArt

(***************************************************************************)
(* What a fetch can produce.  A response is what the code looks at: does   *)
(* fetch throw, response.ok, response.status, and of the body: is it       *)
(* empty or blank, does it contain '<' and '>', does the parsed document   *)
(* hold a parsererror node, how many channel elements, the channel title,  *)
(* the item elements and the podcast:remoteItem elements of the           *)
(* channel.  Text that is not XML parses to a parsererror document.        *)
(***************************************************************************)
MaxItems == 2

\* An item element: the text of its first title, itunes:duration and
\* duration elements, each <<>> when the item has no such element and
\* <<text>> when it has one.
Item(title, itunesDuration, duration) ==
  [title |-> title, itunesDuration |-> itunesDuration, duration |-> duration]

\* An item with the title "A", "B", ... of its place and no duration.
ItemLetters == <<"A", "B", "C", "D">>
PlainItems(n) ==
  [k \in 1..n |-> Item(<< <<ItemLetters[k]>> >>, <<>>, <<>>)]

Body(blank, lt, gt, perr, ch, title, items) ==
  [blank |-> blank, lt |-> lt, gt |-> gt, parsererror |-> perr,
   channels |-> ch, title |-> title, items |-> items, remote |-> <<>>]

BlankBody == Body(TRUE, FALSE, FALSE, TRUE, 0, 0, <<>>)
TextBody == Body(FALSE, FALSE, FALSE, TRUE, 0, 0, <<>>)
LtOnlyBody == Body(FALSE, TRUE, FALSE, TRUE, 0, 0, <<>>)
GtOnlyBody == Body(FALSE, FALSE, TRUE, TRUE, 0, 0, <<>>)
MalformedBody == Body(FALSE, TRUE, TRUE, TRUE, 0, 0, <<>>)
NoChannelBody == Body(FALSE, TRUE, TRUE, FALSE, 0, 0, <<>>)
\* The feed published at url: its channel title names the url.
FeedBody(url, items) == Body(FALSE, TRUE, TRUE, FALSE, 1, url, PlainItems(items))

FetchThrows == [throws |-> TRUE, ok |-> FALSE, status |-> 0, body |-> BlankBody]
HttpResponse(status, body) ==
  [throws |-> FALSE, ok |-> status \in 200..299, status |-> status,
   body |-> body]

\* Every kind of response to a fetch of url.
Responses(url) ==
  {FetchThrows, HttpResponse(500, TextBody), HttpResponse(404, NoChannelBody)}
    \cup {HttpResponse(200, b) :
            b \in {BlankBody, TextBody, LtOnlyBody, GtOnlyBody, MalformedBody,
                   NoChannelBody}}
    \cup {HttpResponse(200, FeedBody(url, n)) : n \in 0..MaxItems}

(***************************************************************************)
(* parseAlbumFeed (rssParser.ts 457-758).                                  *)
(***************************************************************************)
Null == [null |-> TRUE]

\* `Track ${i + 1}`, line 580.
TrackPrefix == <<"T", "r", "a", "c", "k", " ">>

\* The text of the first element of a kind, trimmed:
\* item.getElementsByTagName(..)[0]?.textContent?.trim(), '' standing for
\* undefined as both are falsy.
TrimmedText(element) == IF element = <<>> THEN <<>> ELSE Trim(element[1])

TrackTitleFromZero(item, i) ==
  IF TrimmedText(item.title) # <<>> THEN TrimmedText(item.title)
  ELSE TrackPrefix \o NumberToString(i)

\* Line 580; i is the index of the loop, from 0.
TrackTitle(item, i) ==
  IF TrimmedText(item.title) # <<>> THEN TrimmedText(item.title)
  ELSE TrackPrefix \o NumberToString(i + 1)

\* Lines 583-592: the text handed to normalizeDuration.
DurationText(item) ==
  IF TrimmedText(item.itunesDuration) # <<>>
  THEN TrimmedText(item.itunesDuration)
  ELSE IF TrimmedText(item.duration) # <<>> THEN TrimmedText(item.duration)
  ELSE ZeroDuration

TrackDurationRaw(item) == DurationText(item)

\* Line 594.
TrackDuration(item) == normalizeDuration(DurationText(item))

\* tracks.push({...}), lines 632-642, of the iteration i of the loop.
Track(item, i) ==
  [title |-> TrackTitle(item, i), duration |-> TrackDuration(item),
   trackNumber |-> i + 1]

\* Lines 701-722: the first podcast:remoteItem element below the channel,
\* at any depth (getElementsByTagName), whose medium is 'publisher'; the
\* link is built when its feedGuid, feedUrl and medium are truthy, and is
\* undefined (<<>>) otherwise.
PublisherLink(remote) ==
  LET found == SelectSeq(remote, LAMBDA r : r.medium = "publisher")
  IN IF found = <<>> THEN <<>>
     ELSE IF found[1].feedGuid # 0 /\ found[1].feedUrl # 0
     THEN <<[feedGuid |-> found[1].feedGuid, feedUrl |-> found[1].feedUrl,
             medium |-> found[1].medium]>>
     ELSE <<>>

\* One run of the operation handed to withRetry (lines 458-747) on the
\* response its fetch produced: the checks in the order of the code, then
\* the Album built from the first channel, one track per item in the order
\* of the items.
AlbumAttempt(feedUrl, resp) ==
  IF resp.throws THEN Rejected("Failed to fetch RSS feed")
  ELSE IF ~resp.ok THEN Rejected("Failed to fetch RSS feed: status")
  ELSE IF resp.body.blank THEN Rejected("Empty response from RSS feed")
  ELSE IF ~resp.body.lt \/ ~resp.body.gt
       THEN Rejected("Response is not valid XML")
  ELSE IF resp.body.parsererror THEN Rejected("Failed to parse XML content")
  ELSE IF resp.body.channels = 0
       THEN Rejected("Invalid RSS feed: no channel found")
  ELSE Fulfilled([title |-> resp.body.title,
                  tracks |-> [k \in 1..Len(resp.body.items) |->
                                Track(resp.body.items[k], k - 1)],
                  publisher |-> PublisherLink(resp.body.remote)])

CatchNullMissing(o) == o

\* .catch(error => { ...; return null; }) of lines 754-757.
CatchNull(o) == IF o.status = "rejected" THEN Fulfilled(Null) ELSE o

AlbumMaxRetries == 3
AlbumDelay == 1000

\* parseAlbumFeed(feedUrl) up to its first await: withRetry calls the
\* operation, which issues the fetch.  served lists the responses the
\* fetches of this call received.
AlbumCallStart(feedUrl) ==
  [url |-> feedUrl, inner |-> RetryStart(AlbumMaxRetries, AlbumDelay, TRUE),
   served |-> <<>>, result |-> Pending]

\* The fetch of the running attempt produced resp.
AlbumCallOnFetch(c, resp) ==
  LET f == RetryOnSettle(c.inner, AlbumAttempt(c.url, resp))
  IN [c EXCEPT !.inner = f, !.served = Append(@, resp),
               !.result = CatchNull(f.outcome)]

\* The backoff timer of the call fired.
AlbumCallOnTimer(c) == [c EXCEPT !.inner = RetryOnTimer(c.inner)]

\* No call in progress.
NoFrame == RetryStart(0, 0, FALSE)
NoCall == [url |-> 0, inner |-> NoFrame, served |-> <<>>, result |-> Pending]

(***************************************************************************)
(* parseMultipleFeedsInternal (rssParser.ts 273-343).                      *)
(*                                                                         *)
(* A task is the promise of one callback of batch.map (lines 284-310): a   *)
(* withRetry frame (outer) around a parseAlbumFeed call, and the try/catch *)
(* that turns a rejection into null.                                       *)
(***************************************************************************)
batchSize == 20
BatchDelay == 50
BatchMaxRetries == 2
BatchRetryDelay == 1000

Min(a, b) == IF a < b THEN a ELSE b

SliceInclusive(s, from, to) == SubSeq(s, from + 1, Min(to + 1, Len(s)))

\* Array.prototype.slice(from, to) of a sequence, for 0 <= from <= to.
Slice(s, from, to) == SubSeq(s, from + 1, Min(to, Len(s)))

\* catch (error) { ...; return null; } of lines 297-309.
TaskCatch(o) == IF o.status = "rejected" THEN Fulfilled(Null) ELSE o

\* The callback up to its first await: withRetry calls parseAlbumFeed(url).
TaskStart(url) ==
  [url |-> url,
   outer |-> RetryStart(BatchMaxRetries, BatchRetryDelay, TRUE),
   call |-> AlbumCallStart(url), result |-> Pending]

TaskAfterCallRetryNull(t, c) ==
  IF c.result.status = "pending" THEN [t EXCEPT !.call = c]
  ELSE LET o == RetryOnSettle(t.outer, IF c.result = Fulfilled(Null)
                                       THEN Rejected("null") ELSE c.result)
       IN [t EXCEPT !.call = c, !.outer = o,
                    !.result = IF o.pc = "settled" THEN TaskCatch(o.outcome)
                               ELSE Pending]

\* The parseAlbumFeed call of the task made a step and is now c: when its
\* promise settled, the outer withRetry goes on with it.
TaskAfterCall(t, c) ==
  IF c.result.status = "pending" THEN [t EXCEPT !.call = c]
  ELSE LET o == RetryOnSettle(t.outer, c.result)
       IN [t EXCEPT !.call = c, !.outer = o,
                    !.result = IF o.pc = "settled" THEN TaskCatch(o.outcome)
                               ELSE Pending]

TaskOnFetch(t, resp) == TaskAfterCall(t, AlbumCallOnFetch(t.call, resp))

\* A backoff timer of the task fired: the one of the outer withRetry, which
\* calls parseAlbumFeed again, or the one of the running parseAlbumFeed.
TaskOnTimer(t) ==
  IF t.outer.pc = "backoff"
  THEN [t EXCEPT !.outer = RetryOnTimer(t.outer),
                 !.call = AlbumCallStart(t.url)]
  ELSE [t EXCEPT !.call = AlbumCallOnTimer(t.call)]

TaskFetching(t) ==
  t.result = Pending /\ t.outer.pc = "call" /\ t.call.inner.pc = "call"
TaskWaitingOuterOnly(t) == t.result = Pending /\ t.outer.pc = "backoff"

\* A timer of the task is running.
TaskWaiting(t) ==
  t.result = Pending /\ (t.outer.pc = "backoff" \/ t.call.inner.pc = "backoff")

(***************************************************************************)
(* The state of one parseMultipleFeedsInternal call: feedUrls, the loop    *)
(* variable i, results, where the call is suspended (pc: the join of a     *)
(* window, the delay between two windows, or done) and its promise; tasks  *)
(* holds the promises of all windows so far, those of the running window   *)
(* being the last wlen.  windows, waits, settled and failLog record what   *)
(* the call did: the value of i of each window started, the timers set     *)
(* between windows, the order in which the tasks settled and the failure   *)
(* lines logged.                                                           *)
(***************************************************************************)
NoBatch ==
  [feedUrls |-> <<>>, i |-> 0, results |-> <<>>, pc |-> "idle",
   outcome |-> Pending, tasks |-> <<>>, wlen |-> 0, windows |-> <<>>,
   waits |-> <<>>, settled |-> <<>>, failLog |-> <<>>]

\* The positions in tasks of the promises of the running window.
Promises(b) == (Len(b.tasks) - b.wlen + 1)..Len(b.tasks)

\* Lines 281-310: the slice of the window and the synchronous part of every
\* callback of batch.map, in order.
MfWindowStart(b) ==
  LET batch == Slice(b.feedUrls, b.i, b.i + batchSize)
  IN [b EXCEPT !.pc = "window",
               !.tasks = @ \o [k \in 1..Len(batch) |-> TaskStart(batch[k])],
               !.wlen = Len(batch),
               !.windows = Append(@, b.i)]

\* The call up to its first await: the first window, or the return of the
\* empty results when the loop is not entered.
MfStart(urls) ==
  LET b == [NoBatch EXCEPT !.feedUrls = urls]
  IN IF 0 < Len(urls) THEN MfWindowStart(b)
     ELSE [b EXCEPT !.pc = "done", !.outcome = Fulfilled(<<>>)]

\* The fetch of the task at position p produced resp.
MfOnFetch(b, p, resp) ==
  LET t == TaskOnFetch(b.tasks[p], resp)
  IN [b EXCEPT !.tasks[p] = t,
               !.settled = IF t.result # Pending THEN Append(@, p) ELSE @]

MfOnTimer(b, p) == [b EXCEPT !.tasks[p] = TaskOnTimer(b.tasks[p])]

IsSuccessfulWithTracks(r) ==
  r.status = "fulfilled" /\ r.value # Null /\ Len(r.value.tracks) > 0

IsSuccessfulOrNull(r) == r.status = "fulfilled"

\* The filters of lines 314-317 (only a fulfilled result has a value).
IsSuccessful(r) == r.status = "fulfilled" /\ r.value # Null
IsFailed(r) == r.status = "rejected" \/ (r.status = "fulfilled" /\ r.value = Null)

BatchResultsByCompletion(b) ==
  LET first == Len(b.tasks) - b.wlen
      order == SelectSeq(b.settled, LAMBDA p : p > first)
  IN [k \in 1..b.wlen |-> b.tasks[order[k]].result]

\* await Promise.allSettled(promises), line 312: one result for each promise
\* of the window, in the order of the promises.
BatchResults(b) ==
  LET first == Len(b.tasks) - b.wlen
  IN [k \in 1..b.wlen |-> b.tasks[first + k].result]

MoreWindowsInclusive(b) == b.i + batchSize <= Len(b.feedUrls)

\* if (i + batchSize < feedUrls.length), line 336.
MoreWindows(b) == b.i + batchSize < Len(b.feedUrls)

AnySettled(b) == \E p \in Promises(b) : b.tasks[p].result # Pending

\* Promise.allSettled resolves when every promise of the window has settled.
AllSettled(b) == \A p \in Promises(b) : b.tasks[p].result # Pending

\* Lines 312-338, run when Promise.allSettled resolves: the results of the
\* window in the order of its promises, the successes pushed to results,
\* the failure lines (the first three failures, each naming batch[index]
\* for its index among the failures), then the timer before the next
\* window or the return.
MfJoin(b) ==
  LET batch == Slice(b.feedUrls, b.i, b.i + batchSize)
      batchResults == BatchResults(b)
      successful == SelectSeq(batchResults, IsSuccessful)
      failed == SelectSeq(batchResults, IsFailed)
      detailed == [k \in 1..Min(3, Len(failed)) |-> batch[k]]
      logged == IF Len(failed) > 0
                THEN Append(b.failLog,
                            [window |-> b.i \div batchSize + 1,
                             count |-> Len(failed), urls |-> detailed,
                             more |-> IF Len(failed) > 3 THEN Len(failed) - 3
                                      ELSE 0])
                ELSE b.failLog
      res == b.results \o [k \in 1..Len(successful) |-> successful[k].value]
  IN IF MoreWindows(b)
     THEN [b EXCEPT !.results = res, !.failLog = logged, !.pc = "delay",
                    !.waits = Append(@, BatchDelay)]
     ELSE [b EXCEPT !.results = res, !.failLog = logged, !.pc = "done",
                    !.outcome = Fulfilled(res)]

\* The timer between two windows fired: i += batchSize and the next window.
MfOnDelay(b) == MfWindowStart([b EXCEPT !.i = b.i + batchSize])

(***************************************************************************)
(* The feeds.  A steady feed answers the first fetch with its document;    *)
(* the steady feeds of a window answer one after the other with nothing    *)
(* else in between.  A racy feed answers every fetch on its own, at any    *)
(* moment, with its document or with an error.                             *)
(***************************************************************************)
\* The feed served at url has url modulo MaxItems + 1 items: every third
\* feed, for MaxItems = 2, is a channel without items.
GoodResponse(url) == HttpResponse(200, FeedBody(url, url % (MaxItems + 1)))
RacyResponses(url) == {GoodResponse(url), HttpResponse(500, TextBody)}

RECURSIVE MfServeSteady(_, _)
MfServeSteady(b, ps) ==
  IF ps = <<>> THEN b
  ELSE MfServeSteady(MfOnFetch(b, Head(ps), GoodResponse(b.tasks[Head(ps)].url)),
                     Tail(ps))

\* The members of the set of positions ps in increasing order.
RECURSIVE Ascending(_)
Ascending(ps) ==
  IF ps = {} THEN <<>>
  ELSE LET m == CHOOSE x \in ps : \A y \in ps : x <= y
       IN <<m>> \o Ascending(ps \ {m})

SteadyFetching(b) ==
  {p \in Promises(b) : TaskFetching(b.tasks[p]) /\ b.tasks[p].url \notin racy}

MfSteadyRespond ==
  /\ mf.pc = "window"
  /\ SteadyFetching(mf) # {}
  /\ mf' = MfServeSteady(mf, Ascending(SteadyFetching(mf)))
  /\ UNCHANGED <<rt, ac, racy, pub, pf>>

MfFetchSettles ==
  /\ mf.pc = "window"
  /\ \E p \in Promises(mf) :
       /\ TaskFetching(mf.tasks[p])
       /\ mf.tasks[p].url \in racy
       /\ \E resp \in RacyResponses(mf.tasks[p].url) :
            mf' = MfOnFetch(mf, p, resp)
  /\ UNCHANGED <<rt, ac, racy, pub, pf>>

MfTimerFires ==
  /\ mf.pc = "window"
  /\ \E p \in Promises(mf) :
       /\ TaskWaiting(mf.tasks[p])
       /\ mf' = MfOnTimer(mf, p)
  /\ UNCHANGED <<rt, ac, racy, pub, pf>>

MfWindowJoins ==
  /\ mf.pc = "window"
  /\ AllSettled(mf)
  /\ mf' = MfJoin(mf)
  /\ UNCHANGED <<rt, ac, racy, pub, pf>>

MfDelayFires ==
  /\ mf.pc = "delay"
  /\ mf' = MfOnDelay(mf)
  /\ UNCHANGED <<rt, ac, racy, pub, pf>>

(***************************************************************************)
(* parsePublisherFeed, parsePublisherFeedFromUrl and                       *)
(* parsePublisherFeedAlbums (rssParser.ts 763-899).                        *)
(***************************************************************************)
\* A podcast:remoteItem element; 0 stands for an attribute that is absent.
RemoteItem(medium, feedGuid, feedUrl) ==
  [medium |-> medium, feedGuid |-> feedGuid, feedUrl |-> feedUrl]

IsMusicItemNoGuid(r) == r.medium = "music" /\ r.feedUrl # 0

\* if (medium === 'music' && feedGuid && feedUrl), line 836.
IsMusicItem(r) == r.medium = "music" /\ r.feedGuid # 0 /\ r.feedUrl # 0

\* parsePublisherFeedFromUrl (lines 787-848) on the response its fetch
\* produced: nothing is caught here, so a fetch that throws rejects the
\* call, as do the three throw statements.
PublisherFromUrl(resp) ==
  IF resp.throws THEN Rejected("fetch failed")
  ELSE IF ~resp.ok THEN Rejected("Failed to fetch publisher feed")
  ELSE IF resp.body.parsererror THEN Rejected("Invalid XML format")
  ELSE IF resp.body.channels = 0
       THEN Rejected("Invalid RSS feed: no channel found")
  ELSE Fulfilled(SelectSeq(resp.body.remote, IsMusicItem))

\* How the promise of parsePublisherFeed (lines 763-782) settles.  The
\* TypeError of line 774 is thrown inside the try block and caught: the call
\* returns [].  Lines 769 and 777 return the promise of
\* parsePublisherFeedFromUrl without awaiting it: the try block is left
\* before that promise settles, the catch block never sees its rejection,
\* and the call settles as that promise does.
PublisherFeedSettle(thrown, fromUrl) ==
  IF thrown THEN Fulfilled(<<>>) ELSE fromUrl

PubBatchSizeSmall == 5
PubDelaySmall == 500
PubBatchSizeLarge == 8
PubDelayLarge == 300
PubLargeAbove == 20

PubBatchSizeAtLeast(n) ==
  IF n >= PubLargeAbove THEN PubBatchSizeLarge ELSE PubBatchSizeSmall

\* Lines 866-873.
PubBatchSize(n) == IF n > PubLargeAbove THEN PubBatchSizeLarge ELSE PubBatchSizeSmall
PubDelayMs(n) == IF n > PubLargeAbove THEN PubDelayLarge ELSE PubDelaySmall

\* The state of a parsePublisherFeed call (entry "items") or of a
\* parsePublisherFeedAlbums call (entry "albums"): where it is suspended
\* (pc: the fetch of the publisher feed, a parseMultipleFeedsInternal call,
\* the delay between two of them, done), its promise, and the locals
\* musicFeedUrls, i and allAlbums.  served, waits and tasks record the
\* response of the publisher feed, the timers set and the tasks of the
\* parseMultipleFeedsInternal calls that returned.
NoPub ==
  [entry |-> "none", pc |-> "idle", outcome |-> Pending, served |-> <<>>,
   musicFeedUrls |-> <<>>, i |-> 0, allAlbums |-> <<>>, waits |-> <<>>,
   tasks |-> <<>>, calls |-> 0]

\* The call up to its first await.  input.kind is "alias" for the string
\* 'iroh-aggregated', "url" for any other string and "other" for a value
\* that is not a string.
PubStart(entry, input) ==
  IF input.kind = "other"
  THEN LET o == PublisherFeedSettle(TRUE, Pending)
       IN [NoPub EXCEPT !.entry = entry, !.pc = "done", !.outcome = o]
  ELSE [NoPub EXCEPT !.entry = entry, !.pc = "fetch"]

\* The window of parsePublisherFeedAlbums that starts at b.i (line 878).
PubBatch(b) ==
  Slice(b.musicFeedUrls, b.i, b.i + PubBatchSize(Len(b.musicFeedUrls)))

\* The fetch of the publisher feed produced resp: parsePublisherFeed
\* settles, and parsePublisherFeedAlbums, which awaits it outside of any
\* try block, goes on to line 858 or is rejected.
PubOnFetch(b, resp) ==
  LET o == PublisherFeedSettle(FALSE, PublisherFromUrl(resp))
      c == [b EXCEPT !.served = <<resp>>]
  IN IF b.entry = "items" \/ o.status = "rejected"
     THEN [c EXCEPT !.pc = "done", !.outcome = o]
     ELSE IF Len(o.value) = 0
     THEN [c EXCEPT !.pc = "done", !.outcome = Fulfilled(<<>>)]
     ELSE [c EXCEPT !.pc = "batch", !.calls = 1,
                    !.musicFeedUrls = [k \in 1..Len(o.value) |->
                                         o.value[k].feedUrl]]

\* Lines 885-894 after the parseMultipleFeedsInternal call m settled: its
\* Albums are pushed (a rejection is logged and skipped), then the timer
\* before the next window or the return of allAlbums.
PubOnBatch(b, m) ==
  LET albums == IF m.outcome.status = "fulfilled"
                THEN b.allAlbums \o m.outcome.value ELSE b.allAlbums
      n == Len(b.musicFeedUrls)
      c == [b EXCEPT !.allAlbums = albums, !.tasks = @ \o m.tasks]
  IN IF b.i + PubBatchSize(n) < n
     THEN [c EXCEPT !.pc = "delay", !.waits = Append(@, PubDelayMs(n))]
     ELSE [c EXCEPT !.pc = "done", !.outcome = Fulfilled(albums)]

\* The timer between two windows fired.
PubOnDelay(b) ==
  [b EXCEPT !.i = b.i + PubBatchSize(Len(b.musicFeedUrls)), !.pc = "batch",
            !.calls = b.calls + 1]

(***************************************************************************)
(* Stand-alone parsePublisherFeed and parsePublisherFeedAlbums.  The       *)
(* publisher feed lists the member feeds 1..n as music items, among        *)
(* entries of another medium and music entries that lack an attribute.     *)
(***************************************************************************)
MaxMembers == 22
\* The url the alias stands for (line 768).
WavlakeUrl == 101
PublisherUrl == WavlakeUrl - 1

PubInputs ==
  {[kind |-> "alias", url |-> WavlakeUrl], [kind |-> "url", url |-> PublisherUrl],
   [kind |-> "other", url |-> 0]}

\* An entry that is not a music item with both attributes: of another
\* medium, without feedGuid, or without feedUrl.
PublisherNoise(k) ==
  IF k % 3 = 0 THEN RemoteItem("podcast", 7, 90 + (k % 2))
  ELSE IF k % 3 = 1 THEN RemoteItem("music", 0, 92)
  ELSE RemoteItem("music", 7, 0)

\* The n member feeds in document order, one other entry before each of
\* them and one after the last.
PublisherBody(url, n) ==
  [FeedBody(url, 0) EXCEPT
     !.remote = [j \in 1..(2 * n + 1) |->
                   IF j % 2 = 1 THEN PublisherNoise((j - 1) \div 2)
                   ELSE RemoteItem("music", 7, j \div 2)]]

PubResponses ==
  {FetchThrows, HttpResponse(500, TextBody), HttpResponse(200, MalformedBody),
   HttpResponse(200, NoChannelBody)}
    \cup {HttpResponse(200, PublisherBody(PublisherUrl, n)) : n \in 0..MaxMembers}

\* The racy member feeds are at most two of the feeds at the first and the
\* last place of a window, of either size.
PubRacyChoices ==
  LET places == {p \in 1..MaxMembers :
                   \/ (p - 1) % PubBatchSizeSmall \in {0, PubBatchSizeSmall - 1}
                   \/ (p - 1) % PubBatchSizeLarge \in {0, PubBatchSizeLarge - 1}}
  IN {{a, b} : a, b \in places} \cup {{}}

PubInit ==
  /\ pf = NoApply
  /\ rt = NoFrame
  /\ ac = NoCall
  /\ mf = NoBatch
  /\ racy \in PubRacyChoices
  /\ \E e \in {"items", "albums"}, input \in PubInputs : pub = PubStart(e, input)

PubFetchSettles ==
  /\ pub.pc = "fetch"
  /\ \E resp \in PubResponses :
       /\ pub' = PubOnFetch(pub, resp)
       /\ mf' = IF pub'.pc = "batch" THEN MfStart(PubBatch(pub')) ELSE mf
  /\ UNCHANGED <<rt, ac, racy, pf>>

PubBatchReturns ==
  /\ pub.pc = "batch"
  /\ mf.pc = "done"
  /\ pub' = PubOnBatch(pub, mf)
  /\ UNCHANGED <<rt, ac, mf, racy, pf>>

PubDelayFires ==
  /\ pub.pc = "delay"
  /\ pub' = PubOnDelay(pub)
  /\ mf' = MfStart(PubBatch(pub'))
  /\ UNCHANGED <<rt, ac, racy, pf>>

PubNext ==
  \/ PubFetchSettles
  \/ MfSteadyRespond
  \/ MfFetchSettles
  \/ MfTimerFires
  \/ MfWindowJoins
  \/ PubBatchReturns
  \/ PubDelayFires
SpecPublisher == PubInit /\ [][PubNext]_vars

(***************************************************************************)
(* Stand-alone parseMultipleFeeds(feedUrls): the urls are 1..n.            *)
(***************************************************************************)
MaxUrls == 41

UrlList(n) == [k \in 1..n |-> k]

\* The racy feeds are at most two of the feeds at the first, the second and
\* the last place of a window.
RacyChoices(n) ==
  LET places == {p \in 1..n : (p - 1) % batchSize \in {0, 1, batchSize - 1}}
  IN {{a, b} : a, b \in places} \cup {{}}

BatchInit ==
  /\ pf = NoApply
  /\ rt = NoFrame
  /\ ac = NoCall
  /\ pub = NoPub
  /\ \E n \in 0..MaxUrls :
       /\ racy \in RacyChoices(n)
       /\ mf = MfStart(UrlList(n))

BatchNext ==
  \/ MfSteadyRespond
  \/ MfFetchSettles
  \/ MfTimerFires
  \/ MfWindowJoins
  \/ MfDelayFires
SpecBatch == BatchInit /\ [][BatchNext]_vars

(***************************************************************************)
(* parseMultipleFeeds(feedUrls) in an environment where every fetch        *)
(* settles and every timer fires: a step that can be taken for ever is     *)
(* taken.  The continuation of Promise.allSettled runs once every promise  *)
(* of the window has settled.                                              *)
(***************************************************************************)
MaxLiveUrls == 22

LiveInit ==
  /\ pf = NoApply
  /\ rt = NoFrame
  /\ ac = NoCall
  /\ pub = NoPub
  /\ \E n \in 0..MaxLiveUrls :
       /\ racy \in RacyChoices(n)
       /\ mf = MfStart(UrlList(n))

\* A fetch of the running window has not settled: the state in which
\* MfSteadyRespond or MfFetchSettles can be taken.
FetchPending ==
  /\ mf.pc = "window"
  /\ \E p \in Promises(mf) : TaskFetching(mf.tasks[p])

\* Weak fairness of the settling of the fetches, with FetchPending for
\* ENABLED <<MfSteadyRespond \/ MfFetchSettles>>_vars.
FetchesSettle ==
  []<>(~FetchPending) \/ []<><<MfSteadyRespond \/ MfFetchSettles>>_vars

SpecBatchFair ==
  /\ LiveInit
  /\ [][BatchNext]_vars
  /\ FetchesSettle
  /\ WF_vars(MfTimerFires)
  /\ WF_vars(MfWindowJoins)
  /\ WF_vars(MfDelayFires)

(***************************************************************************)
(* Stand-alone withRetry: fn is an arbitrary operation whose every call    *)
(* fulfils with a value or rejects with an error.                          *)
(***************************************************************************)

RetryInit ==
  /\ pf = NoApply
  /\ \E m \in 0..MaxM, d \in Delays, h \in BOOLEAN :
       rt = RetryStart(m, d, h)
  /\ ac = NoCall
  /\ mf = NoBatch
  /\ racy = {}
  /\ pub = NoPub

RetryFnSettles ==
  /\ rt.pc = "call"
  /\ \E o \in FnOutcomes : rt' = RetryOnSettle(rt, o)
  /\ UNCHANGED <<ac, mf, racy, pub, pf>>

RetryTimerFires ==
  /\ rt.pc = "backoff"
  /\ rt' = RetryOnTimer(rt)
  /\ UNCHANGED <<ac, mf, racy, pub, pf>>

RetryNext == RetryFnSettles \/ RetryTimerFires
SpecRetry == RetryInit /\ [][RetryNext]_vars

(***************************************************************************)
(* Stand-alone parseAlbumFeed(feedUrl).                                    *)
(***************************************************************************)
AlbumUrls == {1, 2}

AlbumInit ==
  /\ pf = NoApply
  /\ rt = NoFrame
  /\ \E u \in AlbumUrls : ac = AlbumCallStart(u)
  /\ mf = NoBatch
  /\ racy = {}
  /\ pub = NoPub

AlbumFetchSettles ==
  /\ ac.inner.pc = "call"
  /\ \E resp \in Responses(ac.url) : ac' = AlbumCallOnFetch(ac, resp)
  /\ UNCHANGED <<rt, mf, racy, pub, pf>>

AlbumTimerFires ==
  /\ ac.inner.pc = "backoff"
  /\ ac' = AlbumCallOnTimer(ac)
  /\ UNCHANGED <<rt, mf, racy, pub, pf>>

AlbumNext == AlbumFetchSettles \/ AlbumTimerFires
SpecAlbum == AlbumInit /\ [][AlbumNext]_vars

(***************************************************************************)
(* Stand-alone parseAlbumFeed(feedUrl) on a feed that is served at once:   *)
(* a channel with at most MaxItems items, each with or without a title and *)
(* with duration tags of every kind.                                       *)
(***************************************************************************)
ItemTitles == {<<>>, << <<" ">> >>, << <<"A">> >>, << <<" ", "B", " ">> >>}

\* The texts of the itunes:duration and of the duration element of an item.
ItemDurations ==
  {<< <<>>, <<>> >>,
   << <<>>, << <<"1", "2", "5">> >> >>,
   << << <<"a", "b", "c">> >>, << <<"1", "2", "5">> >> >>,
   << << <<" ">> >>, << <<"1", ":", "0", "2", ":", "0", "3">> >> >>,
   << << <<" ", "3", ":", "0", "7">> >>, <<>> >>,
   << << <<"0">> >>, <<>> >>,
   << << <<>> >>, << <<"1", ":", "7", "5">> >> >>}

ItemKinds == {Item(t, d[1], d[2]) : t \in ItemTitles, d \in ItemDurations}

ItemLists == UNION {[1..n -> ItemKinds] : n \in 0..MaxItems}

TrackResponses(url) ==
  {HttpResponse(200, [FeedBody(url, 0) EXCEPT !.items = items]) :
     items \in ItemLists}

TrackFeedSettles ==
  /\ ac.result.status = "pending"
  /\ \E resp \in TrackResponses(ac.url) : ac' = AlbumCallOnFetch(ac, resp)
  /\ UNCHANGED <<rt, mf, racy, pub, pf>>

TracksNext == TrackFeedSettles
SpecTracks == AlbumInit /\ [][TracksNext]_vars

(***************************************************************************)
(* Stand-alone parseAlbumFeed(feedUrl) on a feed that is served at once:   *)
(* a channel with at most MaxRemoteItems podcast:remoteItem elements, each *)
(* a child of the channel or of a podcast:podroll element of the channel.  *)
(***************************************************************************)
MaxRemoteItems == 2

\* A podcast:remoteItem element and the element it is a child of; "" is a
\* medium attribute that is absent or empty.
RemoteItemIn(parent, medium, feedGuid, feedUrl) ==
  [parent |-> parent, medium |-> medium, feedGuid |-> feedGuid,
   feedUrl |-> feedUrl]

RemoteKinds ==
  {RemoteItemIn(parent, medium, feedGuid, feedUrl) :
     parent \in {"channel", "podcast:podroll"},
     medium \in {"publisher", "music", ""},
     feedGuid \in {0, 7, 8}, feedUrl \in {0, 9}}

RemoteLists == UNION {[1..n -> RemoteKinds] : n \in 0..MaxRemoteItems}

LinkResponses(url) ==
  {HttpResponse(200, [FeedBody(url, 0) EXCEPT !.remote = remote]) :
     remote \in RemoteLists}

LinkFeedSettles ==
  /\ ac.result.status = "pending"
  /\ \E resp \in LinkResponses(ac.url) : ac' = AlbumCallOnFetch(ac, resp)
  /\ UNCHANGED <<rt, mf, racy, pub, pf>>

LinkNext == LinkFeedSettles
SpecLink == AlbumInit /\ [][LinkNext]_vars

(***************************************************************************)
(* Stand-alone normalizeDuration(duration).  The inputs are every string   *)
(* of at most MaxDurLen characters, the decimal numbers up to MaxSeconds,  *)
(* and the strings of two and of three segments, each segment a number     *)
(* written with or without a leading zero.                                 *)
(***************************************************************************)
MaxDurLen == 4
MaxSeconds == 3700
MaxMinutes == 130
MaxHours == 2
MaxSegment == 61

DurChars == {Digits[d] : d \in 1..Len(Digits)} \cup {":", " ", "a", "-"}

StringsUpTo(n) == UNION {[1..k -> DurChars] : k \in 0..n}

SegTexts(max) ==
  {NumberToString(k) : k \in 0..max}
    \cup {PadStart(NumberToString(k), 2, "0") : k \in 0..max}

DurationInputs ==
  StringsUpTo(MaxDurLen)
    \cup {NumberToString(n) : n \in 0..MaxSeconds}
    \cup {m \o <<":">> \o ss :
            m \in SegTexts(MaxMinutes), ss \in SegTexts(MaxSegment)}
    \cup {h \o <<":">> \o mm \o <<":">> \o ss :
            h \in SegTexts(MaxHours), mm \in SegTexts(MaxSegment),
            ss \in SegTexts(MaxSegment)}

DurationInit ==
  /\ rt = NoFrame
  /\ ac = NoCall
  /\ mf = NoBatch
  /\ racy = {}
  /\ pub = NoPub
  /\ \E d \in DurationInputs : pf = [NoApply EXCEPT !.input = d]

NormalizeDurationReturns ==
  /\ ~pf.done
  /\ pf' = [pf EXCEPT !.output = normalizeDuration(pf.input), !.done = TRUE]
  /\ UNCHANGED <<rt, ac, mf, racy, pub>>

DurationNext == NormalizeDurationReturns
SpecDuration == DurationInit /\ [][DurationNext]_vars

(***************************************************************************)
(* Stand-alone extractCoverArt(channel, items).  Every image named in the  *)
(* document has a path of its own; the urls of one document are all bare   *)
(* urls, all urls with a query string and a fragment, or all relative      *)
(* references.                                                             *)
(***************************************************************************)
MaxCoverItems == 2

UrlForms == {"bare", "query", "relative"}

ImageAt(host, path, form) ==
  IF form = "bare" THEN Text("https:", host, path, "", "")
  ELSE IF form = "query" THEN Text("https:", host, path, "?x=1", "#f")
  ELSE Text("", "", path, "?x=1", "")

ItemHosts == <<"item1.example", "item2.example", "item3.example">>

ChannelsOf(form) ==
  {Channel(itunes, last, image, img) :
     itunes \in {<<>>, <<EmptyString>>,
                 <<ImageAt("channel.example", "/itunes.jpg", form)>>},
     last \in BOOLEAN,
     image \in {<<>>}
       \cup {<<[urlText |-> t, url |-> a[1], href |-> a[2]]>> :
               t \in {<<>>, <<BlankString>>,
                      <<ImageAt("channel.example", "/image-url.jpg", form)>>},
               a \in {<<EmptyString, EmptyString>>,
                      <<ImageAt("channel.example", "/image-attr-url.jpg", form),
                        EmptyString>>,
                      <<EmptyString,
                        ImageAt("channel.example", "/image-attr-href.jpg", form)>>}},
     img \in {<<>>, <<ImageAt("channel.example", "/description.jpg", form)>>}}

FirstItemsOf(form) ==
  {CoverItem(itunes, media, enclosure) :
     itunes \in {<<>>, <<EmptyString>>,
                 <<ImageAt(ItemHosts[1], "/itunes.jpg", form)>>},
     media \in {<<>>,
                <<[type |-> "audio/mpeg",
                   url |-> ImageAt(ItemHosts[1], "/media.mp3", form)]>>,
                <<[type |-> "image/jpeg",
                   url |-> ImageAt(ItemHosts[1], "/media.jpg", form)]>>,
                <<[type |-> "image/jpeg", url |-> EmptyString]>>},
     enclosure \in {<<>>,
                    <<[type |-> "audio/mpeg",
                       url |-> ImageAt(ItemHosts[1], "/enclosure.mp3", form)]>>,
                    <<[type |-> "image/png",
                       url |-> ImageAt(ItemHosts[1], "/enclosure.png", form)]>>}}

\* An item after the first: without an image, with an itunes:image, or
\* with a media:content and an enclosure that are images.
LaterItemsOf(k, form) ==
  {CoverItem(<<>>, <<>>, <<>>),
   CoverItem(<<ImageAt(ItemHosts[k], "/itunes.jpg", form)>>, <<>>, <<>>),
   CoverItem(<<>>,
             <<[type |-> "image/jpeg",
                url |-> ImageAt(ItemHosts[k], "/media.jpg", form)]>>,
             <<[type |-> "image/png",
                url |-> ImageAt(ItemHosts[k], "/enclosure.png", form)]>>)}

CoverItemsOf(form) ==
  UNION {{items \in [1..n -> FirstItemsOf(form)
                               \cup UNION {LaterItemsOf(k, form) : k \in 2..n}] :
            /\ n >= 1 => items[1] \in FirstItemsOf(form)
            /\ \A k \in 2..n : items[k] \in LaterItemsOf(k, form)} :
         n \in 0..MaxCoverItems}

CoverArtInit ==
  /\ rt = NoFrame
  /\ ac = NoCall
  /\ mf = NoBatch
  /\ racy = {}
  /\ pub = NoPub
  /\ \E form \in UrlForms :
       \E channel \in ChannelsOf(form), items \in CoverItemsOf(form) :
         /\ channel.itunes = <<>> => ~channel.itunesLast
         /\ pf = [NoApply EXCEPT
                    !.input = [channel |-> channel, items |-> items]]

ExtractCoverArtReturns ==
  /\ ~pf.done
  /\ pf' = [pf EXCEPT
              !.output = extractCoverArt(pf.input.channel, pf.input.items),
              !.done = TRUE]
  /\ UNCHANGED <<rt, ac, mf, racy, pub>>

CoverArtNext == ExtractCoverArtReturns
SpecCoverArt == CoverArtInit /\ [][CoverArtNext]_vars

(***************************************************************************)
(* Stand-alone cleanHtmlContent(content).  The inputs are null, the texts  *)
(* made of at most MaxTokens pieces (entities, parts of entities, tags,    *)
(* single characters) and the texts of ExampleTexts.                       *)
(***************************************************************************)
MaxTokens == 3

Tokens ==
  {Entities[k].name : k \in 1..Len(Entities)}
    \cup {<<"<", "b", ">">>, <<"<", "/", "b", ">">>, <<"<">>, <<">">>, <<"&">>,
          <<"&", "a", "m">>, <<"p", ";">>, <<"a", "m", "p", ";">>,
          <<"l", "t", ";">>, <<"g", "t", ";">>, <<"n", "b", "s", "p", ";">>,
          <<"q", "u", "o", "t", ";">>, <<" ">>, <<"a">>}

RECURSIVE Concat(_)
Concat(ts) == IF ts = <<>> THEN <<>> ELSE Head(ts) \o Concat(Tail(ts))

\* "<b>Hi</b> &amp; Bye"
ExampleTexts ==
  {<<"<", "b", ">", "H", "i", "<", "/", "b", ">", " ", "&", "a", "m", "p",
     ";", " ", "B", "y", "e">>}

CleanInputs ==
  {<<>>}
    \cup {<<t>> : t \in ExampleTexts}
    \cup {<<Concat(ts)>> : ts \in UNION {[1..n -> Tokens] : n \in 0..MaxTokens}}

CleanInit ==
  /\ rt = NoFrame
  /\ ac = NoCall
  /\ mf = NoBatch
  /\ racy = {}
  /\ pub = NoPub
  /\ \E content \in CleanInputs : pf = [NoApply EXCEPT !.input = content]

CleanHtmlContentReturns ==
  /\ ~pf.done
  /\ pf' = [pf EXCEPT !.output = cleanHtmlContent(pf.input), !.done = TRUE]
  /\ UNCHANGED <<rt, ac, mf, racy, pub>>

CleanNext == CleanHtmlContentReturns
SpecClean == CleanInit /\ [][CleanNext]_vars

(***************************************************************************)
(* The request of a feed fetch (rssParser.ts 392-407, 461-474, 788-797,    *)
(* 904-915): the same lines in parsePC20Feed, parseAlbumFeed,              *)
(* parsePublisherFeedFromUrl and parsePublisherFeedInfo.                   *)
(***************************************************************************)
\* The characters encodeURIComponent leaves as they are.
Unreserved ==
  {"a", "b", "c", "d", "e", "f", "g", "h", "i", "j", "k", "l", "m", "n", "o",
    "p", "q", "r", "s", "t", "u", "v", "w", "x", "y", "z", "A", "B", "C", "D",
    "E", "F", "G", "H", "I", "J", "K", "L", "M", "N", "O", "P", "Q", "R", "S",
    "T", "U", "V", "W", "X", "Y", "Z", "0", "1", "2", "3", "4", "5", "6", "7",
    "8", "9", "-", "_", ".", "!", "~", "*", "'", "(", ")"}

\* The escape sequences of the other ASCII characters of the feed urls.
Escapes ==
  <<
    [char |-> " ", code |-> <<"%", "2", "0">>],
    [char |-> "#", code |-> <<"%", "2", "3">>],
    [char |-> "$", code |-> <<"%", "2", "4">>],
    [char |-> "%", code |-> <<"%", "2", "5">>],
    [char |-> "&", code |-> <<"%", "2", "6">>],
    [char |-> "+", code |-> <<"%", "2", "B">>],
    [char |-> ",", code |-> <<"%", "2", "C">>],
    [char |-> "/", code |-> <<"%", "2", "F">>],
    [char |-> ":", code |-> <<"%", "3", "A">>],
    [char |-> ";", code |-> <<"%", "3", "B">>],
    [char |-> "=", code |-> <<"%", "3", "D">>],
    [char |-> "?", code |-> <<"%", "3", "F">>],
    [char |-> "@", code |-> <<"%", "4", "0">>]
  >>

\* A UTF-16 code unit of a surrogate pair that stands alone in a string:
\* encodeURIComponent throws a URIError on it.
LoneSurrogate == "uD800"

EscapeOf(c) ==
  LET k == CHOOSE j \in 1..Len(Escapes) : Escapes[j].char = c
  IN Escapes[k].code

\* encodeURIComponent(s): <<the encoded text>>, or <<>> when it throws.
RECURSIVE EncodeChars(_)
EncodeChars(s) ==
  IF s = <<>> THEN <<>>
  ELSE (IF Head(s) \in Unreserved THEN <<Head(s)>> ELSE EscapeOf(Head(s)))
         \o EncodeChars(Tail(s))

encodeURIComponent(s) ==
  IF Includes(s, LoneSurrogate) THEN <<>> ELSE <<EncodeChars(s)>>

\* s.startsWith(p)
StartsWith(s, p) == Len(s) >= Len(p) /\ SubSeq(s, 1, Len(p)) = p

\* '/api/fetch-rss' and '?url='
ProxyPath == <<"/", "a", "p", "i", "/", "f", "e", "t", "c", "h", "-", "r", "s", "s">>
ProxyQuery == <<"?", "u", "r", "l", "=">>

FetchTargetAlwaysProxied(isServer, feedUrl) ==
  IF isServer THEN <<feedUrl>>
  ELSE IF encodeURIComponent(feedUrl) = <<>> THEN <<>>
  ELSE <<ProxyPath \o ProxyQuery \o encodeURIComponent(feedUrl)[1]>>

\* The argument of the fetch of one attempt: feedUrl when there is no
\* window object, else feedUrl when it starts with the path of the proxy,
\* else the url of the proxy with feedUrl as its parameter.  <<>> when
\* encodeURIComponent throws and no fetch is issued.
FetchTarget(isServer, feedUrl) ==
  IF isServer THEN <<feedUrl>>
  ELSE IF StartsWith(feedUrl, ProxyPath) THEN <<feedUrl>>
  ELSE IF encodeURIComponent(feedUrl) = <<>> THEN <<>>
  ELSE <<ProxyPath \o ProxyQuery \o encodeURIComponent(feedUrl)[1]>>

(***************************************************************************)
(* parsePC20Feed (rssParser.ts 386-440) and parsePublisherFeedInfo         *)
(* (rssParser.ts 903-951).                                                 *)
(***************************************************************************)
\* One run of the operation parsePC20Feed hands to withRetry (lines
\* 388-432) on the response its fetch produced.  this.parseString rejects
\* on a text that is not well-formed XML and on a document without a
\* channel; enhanceWithPC20Data keeps the title and the items of the feed.
PC20Attempt(resp) ==
  IF resp.throws THEN Rejected("Failed to fetch RSS feed")
  ELSE IF ~resp.ok
       THEN IF resp.status = 429
            THEN Rejected("Rate limited while fetching RSS feed")
            ELSE Rejected("Failed to fetch RSS feed: status")
  ELSE IF resp.body.blank THEN Rejected("Empty response from RSS feed")
  ELSE IF ~resp.body.lt \/ ~resp.body.gt
       THEN Rejected("Response is not valid XML")
  ELSE IF resp.body.parsererror THEN Rejected("parseString: not XML")
  ELSE IF resp.body.channels = 0 THEN Rejected("parseString: not a feed")
  ELSE Fulfilled([title |-> resp.body.title,
                  items |-> [k \in 1..Len(resp.body.items) |->
                               TrimmedText(resp.body.items[k].title)]])

PC20MaxRetries == 3
PC20Delay == 1000

PC20ReturnCatchNull(o) == IF o.status = "rejected" THEN Fulfilled(Null) ELSE o

\* return withRetry(...), lines 387 and 433-439: the promise of withRetry
\* is the promise of parsePC20Feed, no handler is attached to it.
PC20Return(o) == o

\* The try block of parsePublisherFeedInfo after its fetch (lines 916-945).
\* The bodies of this model hold no description, author or image element:
\* description is '', artist is the title and coverArt is undefined.
PublisherInfoAttempt(resp) ==
  IF resp.throws THEN Rejected("fetch failed")
  ELSE IF ~resp.ok THEN Rejected("Failed to fetch publisher feed")
  ELSE IF resp.body.parsererror THEN Rejected("Invalid XML format")
  ELSE IF resp.body.channels = 0
       THEN Rejected("Invalid RSS feed: no channel found")
  ELSE Fulfilled([title |-> resp.body.title, description |-> <<>>,
                  artist |-> resp.body.title, coverArt |-> <<>>])

\* catch (error) { ...; return null; } of lines 947-950.
InfoCatch(o) == IF o.status = "rejected" THEN Fulfilled(Null) ELSE o

\* 'iroh-aggregated' and the url it stands for (lines 766-768).
IrohAlias == <<"i", "r", "o", "h", "-", "a", "g", "g", "r", "e", "g", "a", "t", "e",
      "d">>
WavlakeFeedUrl ==
  <<"h", "t", "t", "p", "s", ":", "/", "/", "w", "a", "v", "l", "a", "k", "e",
    ".", "c", "o", "m", "/", "f", "e", "e", "d", "/", "a", "r", "t", "i", "s",
    "t", "/", "8", "a", "9", "c", "2", "e", "5", "4", "-", "7", "8", "5", "a",
    "-", "4", "1", "2", "8", "-", "9", "4", "1", "2", "-", "7", "3", "7", "6",
    "1", "0", "f", "5", "d", "0", "0", "a">>

(***************************************************************************)
(* A call of one of the four operations that fetch a feed.  feedUrl is the *)
(* url its fetches are about, requests lists the arguments of the fetches  *)
(* it issued and served the responses they received; frame is the          *)
(* withRetry frame of parseAlbumFeed and parsePC20Feed.                    *)
(***************************************************************************)
Retried(entry) == entry \in {"parseAlbumFeed", "parsePC20Feed"}

NoFeedCall ==
  [entry |-> "none", isServer |-> FALSE, input |-> <<>>, feedUrl |-> <<>>,
   frame |-> NoFrame, requests |-> <<>>, served |-> <<>>, pc |-> "idle",
   outcome |-> Pending]

\* How one attempt ends on the response of its fetch.
FeedAttempt(entry, feedUrl, resp) ==
  IF entry = "parseAlbumFeed" THEN AlbumAttempt(feedUrl, resp)
  ELSE IF entry = "parsePC20Feed" THEN PC20Attempt(resp)
  ELSE IF entry = "parsePublisherFeed" THEN PublisherFromUrl(resp)
  ELSE PublisherInfoAttempt(resp)

\* An attempt ended with outcome o: the withRetry frame goes on to its
\* backoff timer or settles, and the call settles through its own handler.
FeedCallSettle(c, o) ==
  IF Retried(c.entry)
  THEN LET f == RetryOnSettle(c.frame, o)
           r == IF c.entry = "parseAlbumFeed" THEN CatchNull(f.outcome)
                ELSE PC20Return(f.outcome)
       IN IF f.pc = "settled"
          THEN [c EXCEPT !.frame = f, !.pc = "done", !.outcome = r]
          ELSE [c EXCEPT !.frame = f, !.pc = "backoff"]
  ELSE IF c.entry = "parsePublisherFeed"
  THEN [c EXCEPT !.pc = "done", !.outcome = PublisherFeedSettle(FALSE, o)]
  ELSE [c EXCEPT !.pc = "done", !.outcome = InfoCatch(o)]

\* The start of an attempt up to its await of fetch.  When
\* encodeURIComponent throws, no fetch is issued: the try blocks of
\* parseAlbumFeed and parsePC20Feed turn the URIError into their fetch
\* error, the other two operations are left with it.
FeedAttemptStart(c) ==
  LET t == FetchTarget(c.isServer, c.feedUrl)
  IN IF t # <<>>
     THEN [c EXCEPT !.requests = Append(@, t[1]), !.pc = "fetch"]
     ELSE IF Retried(c.entry)
     THEN FeedCallSettle(c, FeedAttempt(c.entry, c.feedUrl, FetchThrows))
     ELSE FeedCallSettle(c, Rejected("URI malformed"))

\* The call up to its first await.  input is <<>> for a value that is not a
\* string, which only parsePublisherFeed looks for (line 772).
FeedCallStart(entry, isServer, input) ==
  LET c == [NoFeedCall EXCEPT !.entry = entry, !.isServer = isServer,
                              !.input = input]
  IN IF entry = "parsePublisherFeed" /\ input = <<>>
     THEN [c EXCEPT !.pc = "done",
                    !.outcome = PublisherFeedSettle(TRUE, Pending)]
     ELSE IF entry = "parsePublisherFeed" /\ input[1] = IrohAlias
     THEN FeedAttemptStart([c EXCEPT !.feedUrl = WavlakeFeedUrl])
     ELSE IF Retried(entry)
     THEN FeedAttemptStart(
            [c EXCEPT !.feedUrl = input[1],
                      !.frame = RetryStart(IF entry = "parseAlbumFeed"
                                           THEN AlbumMaxRetries
                                           ELSE PC20MaxRetries,
                                           IF entry = "parseAlbumFeed"
                                           THEN AlbumDelay ELSE PC20Delay,
                                           TRUE)])
     ELSE FeedAttemptStart([c EXCEPT !.feedUrl = input[1]])

\* The fetch of the running attempt produced resp.
FeedCallOnFetch(c, resp) ==
  FeedCallSettle([c EXCEPT !.served = Append(@, resp)],
                 FeedAttempt(c.entry, c.feedUrl, resp))

\* The backoff timer fired: the next attempt starts.
FeedCallOnTimer(c) ==
  FeedAttemptStart([c EXCEPT !.frame = RetryOnTimer(c.frame)])

(***************************************************************************)
(* Stand-alone calls of parseAlbumFeed, parsePC20Feed, parsePublisherFeed  *)
(* and parsePublisherFeedInfo, in a browser and on a server.               *)
(***************************************************************************)
FeedEntries ==
  {"parseAlbumFeed", "parsePC20Feed", "parsePublisherFeed",
   "parsePublisherFeedInfo"}

\* "http://h/a?b=c&d", "/api/fetch-rss?url=x", "/api/fetch-rssx",
\* "/api/fetch", "https://h/api/fetch-rss", "a b%", "", a text with a lone
\* surrogate, and the alias.
FeedUrlTexts ==
  {<<"h", "t", "t", "p", ":", "/", "/", "h", "/", "a", "?", "b", "=", "c",
      "&", "d">>,
   <<"/", "a", "p", "i", "/", "f", "e", "t", "c", "h", "-", "r", "s", "s",
      "?", "u", "r", "l", "=", "x">>,
   <<"/", "a", "p", "i", "/", "f", "e", "t", "c", "h", "-", "r", "s", "s",
      "x">>,
   <<"/", "a", "p", "i", "/", "f", "e", "t", "c", "h">>,
   <<"h", "t", "t", "p", "s", ":", "/", "/", "h", "/", "a", "p", "i", "/",
      "f", "e", "t", "c", "h", "-", "r", "s", "s">>,
   <<"a", " ", "b", "%">>,
   <<>>,
   <<"h", LoneSurrogate>>,
   IrohAlias}

FeedInputs(entry) ==
  {<<t>> : t \in FeedUrlTexts}
    \cup (IF entry = "parsePublisherFeed" THEN {<<>>} ELSE {})

FeedResponses == Responses(1) \cup {HttpResponse(429, TextBody)}

FetchInit ==
  /\ rt = NoFrame
  /\ ac = NoCall
  /\ mf = NoBatch
  /\ racy = {}
  /\ pub = NoPub
  /\ \E entry \in FeedEntries, isServer \in BOOLEAN :
       \E input \in FeedInputs(entry) :
         pf = FeedCallStart(entry, isServer, input)

FeedFetchSettles ==
  /\ pf.pc = "fetch"
  /\ \E resp \in FeedResponses : pf' = FeedCallOnFetch(pf, resp)
  /\ UNCHANGED <<rt, ac, mf, racy, pub>>

FeedTimerFires ==
  /\ pf.pc = "backoff"
  /\ pf' = FeedCallOnTimer(pf)
  /\ UNCHANGED <<rt, ac, mf, racy, pub>>

FetchNext == FeedFetchSettles \/ FeedTimerFires
SpecFetch == FetchInit /\ [][FetchNext]_vars

(***************************************************************************)
(* The query hooks of usePodcastIndex.ts (lines 33-163).  A hook is called *)
(* at every render of its component with params and config; useQuery      *)
(* registers the query of the hook under its key and runs queryFn when the *)
(* query is enabled and its key has not been fetched.  An optional value   *)
(* is <<>> when undefined and <<v>> otherwise; a string is the sequence of *)
(* its characters.                                                         *)
(***************************************************************************)
ConfigRequired == "Podcast Index API configuration is required"

\* !!s for a string and !!n for a number.
TruthyString(s) == s # <<>> /\ s[1] # <<>>
TruthyNumber(n) == n # <<>> /\ n[1] # 0

usePodcastIndexClientLenient(config) == [thrown |-> FALSE, error |-> ""]

\* Lines 33-40: throws without a config, else returns the client that
\* createPodcastIndexClient builds (its constructor only stores config).
usePodcastIndexClient(config) ==
  IF config = <<>> THEN [thrown |-> TRUE, error |-> ConfigRequired]
  ELSE [thrown |-> FALSE, error |-> ""]

\* The hooks that call usePodcastIndexClient, and usePodcastIndexStats,
\* which does not.
ClientHooks ==
  {"useSearchPodcasts", "useSearchEpisodes", "usePodcast", "usePodcastByUrl",
   "useEpisodes", "useRecentEpisodes", "useRecentFeeds"}
QueryHooks == ClientHooks \cup {"usePodcastIndexStats"}
IntervalHooks == {"useRecentEpisodes", "useRecentFeeds"}

HookParams(q, id, url) == [q |-> q, id |-> id, url |-> url]

\* The enabled option of the hook: lines 50, 61, 74, 85, 105, 118, 130, 160.
EnabledOption(hook, params, config) ==
  IF hook \in {"useSearchPodcasts", "useSearchEpisodes"}
  THEN TruthyString(params.q) /\ config # <<>>
  ELSE IF hook = "usePodcast" THEN TruthyNumber(params.id) /\ config # <<>>
  ELSE IF hook = "usePodcastByUrl"
  THEN TruthyString(params.url) /\ config # <<>>
  ELSE IF hook = "useEpisodes"
  THEN (TruthyNumber(params.id) \/ TruthyString(params.url)) /\ config # <<>>
  ELSE config # <<>>

\* The part of params the queryKey of the hook is made of (lines 48, 59,
\* 72, 83, 96; params.id || params.url || 'unknown' for useEpisodes).
QueryKey(hook, params) ==
  IF hook \in {"useSearchPodcasts", "useSearchEpisodes"}
  THEN HookParams(params.q, <<>>, <<>>)
  ELSE IF hook = "usePodcast" THEN HookParams(<<>>, params.id, <<>>)
  ELSE IF hook = "usePodcastByUrl" THEN HookParams(<<>>, <<>>, params.url)
  ELSE IF hook = "useEpisodes"
  THEN IF TruthyNumber(params.id) THEN HookParams(<<>>, params.id, <<>>)
       ELSE IF TruthyString(params.url) THEN HookParams(<<>>, <<>>, params.url)
       ELSE HookParams(<<>>, <<>>, <<>>)
  ELSE HookParams(<<>>, <<>>, <<>>)

\* The method of the client that queryFn calls (lines 49, 60, 73, 84,
\* 97-104, 117, 129); the queryFn of usePodcastIndexStats calls none.
QueryFn(hook, params) ==
  IF hook = "useSearchPodcasts" THEN "searchPodcasts"
  ELSE IF hook = "useSearchEpisodes" THEN "searchEpisodes"
  ELSE IF hook = "usePodcast" THEN "getPodcastById"
  ELSE IF hook = "usePodcastByUrl" THEN "getPodcastByUrl"
  ELSE IF hook = "useEpisodes"
  THEN IF TruthyNumber(params.id) THEN "getEpisodesByFeedId"
       ELSE IF TruthyString(params.url) THEN "getEpisodesByFeedUrl"
       ELSE "throw: Either id or url must be provided"
  ELSE IF hook = "useRecentEpisodes" THEN "getRecentEpisodes"
  ELSE IF hook = "useRecentFeeds" THEN "getRecentFeeds"
  ELSE "stats"

\* The state of the component that calls the hook: the arguments of the
\* last call, whether that call threw, whether its query is registered and
\* enabled, the key of the query and whether it has been fetched; issued
\* lists the runs of queryFn and renders counts the calls of the hook.
NoHook(hook) ==
  [hook |-> hook, params |-> HookParams(<<>>, <<>>, <<>>), config |-> <<>>,
   thrown |-> FALSE, error |-> "", registered |-> FALSE, enabled |-> FALSE,
   key |-> HookParams(<<>>, <<>>, <<>>), fetched |-> FALSE, issued |-> <<>>,
   renders |-> 0]

\* One call of the hook.  An error thrown while rendering unmounts the
\* component and with it the observer of the query.
HookRender(h, params, config) ==
  LET c == [h EXCEPT !.params = params, !.config = config,
                     !.renders = h.renders + 1]
      client == usePodcastIndexClient(config)
      key == QueryKey(h.hook, params)
  IN IF h.hook \in ClientHooks /\ client.thrown
     THEN [c EXCEPT !.thrown = TRUE, !.error = client.error,
                    !.registered = FALSE, !.enabled = FALSE]
     ELSE [c EXCEPT !.registered = TRUE,
                    !.enabled = EnabledOption(h.hook, params, config),
                    !.key = key,
                    !.fetched = h.registered /\ h.key = key /\ h.fetched]

\* useQuery runs queryFn.
QueryRun(h) ==
  [h EXCEPT !.fetched = TRUE,
            !.issued = Append(@, [method |-> QueryFn(h.hook, h.params),
                                  params |-> h.params, config |-> h.config])]

(***************************************************************************)
(* Stand-alone query hooks: one component that calls one hook, renders at  *)
(* most MaxRenders times and runs at most MaxQueries queries.              *)
(***************************************************************************)
MaxRenders == 3
MaxQueries == 3

QTexts == {<<>>, << <<>> >>, << <<"a">> >>}
IdNumbers == {<<>>, <<0>>, <<5>>}
UrlTexts == {<<>>, << <<>> >>, << <<"u">> >>}
Configs == {<<>>, <<"config">>}

\* The arguments a component passes to the hook.
ParamsOf(hook) ==
  IF hook \in {"useSearchPodcasts", "useSearchEpisodes"}
  THEN {HookParams(q, <<>>, <<>>) : q \in QTexts}
  ELSE IF hook = "usePodcast" THEN {HookParams(<<>>, id, <<>>) : id \in IdNumbers}
  ELSE IF hook = "usePodcastByUrl"
  THEN {HookParams(<<>>, <<>>, url) : url \in UrlTexts}
  ELSE IF hook = "useEpisodes"
  THEN {HookParams(<<>>, id, url) : id \in IdNumbers, url \in UrlTexts}
  ELSE {HookParams(<<>>, <<>>, <<>>)}

HooksInit ==
  /\ rt = NoFrame
  /\ ac = NoCall
  /\ mf = NoBatch
  /\ racy = {}
  /\ pub = NoPub
  /\ \E hook \in QueryHooks, config \in Configs :
       \E params \in ParamsOf(hook) :
         pf = HookRender(NoHook(hook), params, config)

HookRerenders ==
  /\ ~pf.thrown
  /\ pf.renders < MaxRenders
  /\ \E config \in Configs, params \in ParamsOf(pf.hook) :
       pf' = HookRender(pf, params, config)
  /\ UNCHANGED <<rt, ac, mf, racy, pub>>

QueryFetches ==
  /\ pf.registered /\ pf.enabled /\ ~pf.fetched
  /\ Len(pf.issued) < MaxQueries
  /\ pf' = QueryRun(pf)
  /\ UNCHANGED <<rt, ac, mf, racy, pub>>

\* refetchInterval of lines 120 and 132.
QueryRefetches ==
  /\ pf.hook \in IntervalHooks
  /\ pf.registered /\ pf.enabled /\ pf.fetched
  /\ Len(pf.issued) < MaxQueries
  /\ pf' = QueryRun(pf)
  /\ UNCHANGED <<rt, ac, mf, racy, pub>>

HooksNext == HookRerenders \/ QueryFetches \/ QueryRefetches
SpecHooks == HooksInit /\ [][HooksNext]_vars

(***************************************************************************)
(* Properties of withRetry.                                                *)
(***************************************************************************)
AllRejected(log) == \A j \in 1..Len(log) : log[j].status = "rejected"

FailsThenSucceeds(log) ==
  /\ Len(log) >= 1
  /\ log[Len(log)].status = "fulfilled"
  /\ \A j \in 1..(Len(log) - 1) : log[j].status = "rejected"

CountEv(trace, name) == Cardinality({j \in 1..Len(trace) : trace[j][1] = name})

\* What a call with onRetry does when fn fails k times and is called k+1
\* times: call 1, then for i = 1..k onRetry(i), a wait of d*2^(i-1) ms and
\* call i+1.
RECURSIVE ExpectedRetryTrace(_, _)
ExpectedRetryTrace(k, d) ==
  IF k = 0 THEN << <<"call", 1>> >>
  ELSE ExpectedRetryTrace(k - 1, d)
         \o << <<"onRetry", k>>, <<"wait", d * 2^(k - 1)>>, <<"call", k + 1>> >>

\* C5: when fn fails on its first k calls (k < maxRetries) and succeeds on
\* call k+1, withRetry resolves with that value after exactly k+1 calls of
\* fn, k calls of onRetry with attempts 1..k, each before its wait, and
\* waits of d, 2d, 4d, ...; as long as fewer than maxRetries calls have
\* failed the call goes on (it has not settled).
C5_RetryUntilSuccess ==
  rt.onRetry =>
    /\ FailsThenSucceeds(rt.fnLog) =>
          LET k == Len(rt.fnLog) - 1 IN
            /\ k < rt.maxRetries
            /\ rt.pc = "settled"
            /\ rt.outcome = Fulfilled(rt.fnLog[k + 1].value)
            /\ rt.calls = k + 1
            /\ rt.trace = ExpectedRetryTrace(k, rt.delay)
    /\ (AllRejected(rt.fnLog) /\ Len(rt.fnLog) < rt.maxRetries) =>
          /\ rt.pc # "settled"
          /\ rt.calls \in {Len(rt.fnLog), Len(rt.fnLog) + 1}

C5_Witness ==
  /\ rt.onRetry
  /\ rt.pc = "settled"
  /\ Len(rt.fnLog) = 4
  /\ FailsThenSucceeds(rt.fnLog)
  /\ rt.outcome = Fulfilled("v2")

\* C6: when fn fails on all maxRetries >= 1 calls, fn was called exactly
\* maxRetries times, onRetry maxRetries-1 times, no wait follows the last
\* failure, and withRetry rejects with the error of the last call.
C6_RetryExhausted ==
  /\ (rt.maxRetries >= 1 /\ AllRejected(rt.fnLog)
        /\ Len(rt.fnLog) = rt.maxRetries) =>
       /\ rt.pc = "settled"
       /\ rt.outcome = Rejected(rt.fnLog[rt.maxRetries].reason)
       /\ rt.calls = rt.maxRetries
       /\ rt.trace[Len(rt.trace)] = <<"call", rt.maxRetries>>
       /\ CountEv(rt.trace, "wait") = rt.maxRetries - 1
       /\ rt.onRetry => CountEv(rt.trace, "onRetry") = rt.maxRetries - 1
       /\ rt.timer = 0
  /\ (rt.maxRetries >= 1 /\ rt.outcome.status = "rejected") =>
       /\ AllRejected(rt.fnLog)
       /\ Len(rt.fnLog) = rt.maxRetries

C6_Witness ==
  /\ rt.maxRetries = 3
  /\ rt.outcome = Rejected("e2")
  /\ Len(rt.fnLog) = 3
  /\ rt.fnLog[1] = Rejected("e1")
  /\ rt.fnLog[2] = Rejected("e1")

(***************************************************************************)
(* Properties of parseAlbumFeed.                                           *)
(***************************************************************************)
\* An attempt fails when its fetch throws, the status is not a success, the
\* body is empty, the body lacks '<' or '>', the document holds a
\* parsererror node or there is no channel element.
Fails(resp) ==
  \/ resp.throws
  \/ ~resp.ok
  \/ resp.body.blank
  \/ ~resp.body.lt
  \/ ~resp.body.gt
  \/ resp.body.parsererror
  \/ resp.body.channels = 0

AllFail(served) == \A j \in 1..Len(served) : Fails(served[j])

\* C2: parseAlbumFeed never rejects; when every attempt fails it makes
\* exactly 3 attempts with waits of 1000 ms and 2000 ms and resolves to
\* null; when an attempt succeeds it resolves to a non-null Album and makes
\* no further attempt.
C2_AlbumFeedNeverRejects ==
  /\ ac.result.status # "rejected"
  /\ \A j \in 1..(Len(ac.served) - 1) : Fails(ac.served[j])
  /\ ac.inner.calls \in {Len(ac.served), Len(ac.served) + 1}
  /\ (AllFail(ac.served) /\ Len(ac.served) < 3) => ac.result = Pending
  /\ (AllFail(ac.served) /\ Len(ac.served) >= 3) =>
       /\ Len(ac.served) = 3
       /\ ac.result = Fulfilled(Null)
       /\ ac.inner.calls = 3
       /\ ac.inner.trace = << <<"call", 1>>, <<"onRetry", 1>>, <<"wait", 1000>>,
                              <<"call", 2>>, <<"onRetry", 2>>, <<"wait", 2000>>,
                              <<"call", 3>> >>
  /\ ~AllFail(ac.served) =>
       /\ ac.result.status = "fulfilled"
       /\ ac.result.value # Null
       /\ ac.result.value.title = ac.url
       /\ ac.inner.calls = Len(ac.served)
       /\ ac.inner.pc = "settled"

C2_Witness ==
  /\ Len(ac.served) = 3
  /\ AllFail(ac.served)
  /\ ac.served[1] = FetchThrows
  /\ ac.served[2] = HttpResponse(200, MalformedBody)
  /\ ac.served[3] = HttpResponse(200, NoChannelBody)
  /\ ac.result = Fulfilled(Null)

(***************************************************************************)
(* Properties of parseMultipleFeeds.                                       *)
(***************************************************************************)
NumUrls == Len(mf.feedUrls)

\* The places in the input list of the url an Album was built from (the
\* title of the feed at a url names the url).
PlacesOf(album) ==
  IF album = Null THEN {}
  ELSE {p \in 1..NumUrls : mf.feedUrls[p] = album.title}

IsAlbumOf(album, url) == album # Null /\ album.title = url

\* The urls whose single-feed extraction failed for good: every response
\* their fetches received was a failing one.
FailedPlaces ==
  {p \in 1..Len(mf.tasks) : AllFail(mf.tasks[p].call.served)}

\* C1: parseMultipleFeeds never rejects; it resolves with exactly one Album
\* for each url whose extraction succeeded and none for a url whose
\* extraction failed, so with |urls| minus the number of failed urls Albums.
C1_BatchSkipsFailures ==
  /\ mf.outcome.status # "rejected"
  /\ mf.pc = "done" =>
       /\ mf.outcome = Fulfilled(mf.results)
       /\ Len(mf.tasks) = NumUrls
       /\ Len(mf.results) = NumUrls - Cardinality(FailedPlaces)
       /\ \A p \in 1..NumUrls :
            Cardinality({k \in 1..Len(mf.results) :
                           IsAlbumOf(mf.results[k], mf.feedUrls[p])})
              = IF AllFail(mf.tasks[p].call.served) THEN 0 ELSE 1

C1_Witness ==
  /\ mf.pc = "done"
  /\ NumUrls = 25
  /\ FailedPlaces = {2, 20}
  /\ Len(mf.results) = 23

\* C7: no operation of a later window is started (no fetch of it issued)
\* before every operation of the earlier windows has settled, and the
\* windows are started in increasing order of their start index.  (The
\* tasks are in the order of their start, so a task of a later window
\* exists exactly when the last task is one.)
C7_WindowsOneAfterAnother ==
  /\ \A p \in 1..Len(mf.tasks) :
       (\E q \in {Len(mf.tasks)} : (p - 1) \div 20 < (q - 1) \div 20)
         => mf.tasks[p].result # Pending
  /\ \A p \in 1..Len(mf.tasks) : mf.tasks[p].url = mf.feedUrls[p]
  /\ \A j \in 1..Len(mf.windows) : mf.windows[j] = 20 * (j - 1)

C7_Witness ==
  /\ mf.pc = "window"
  /\ Len(mf.windows) = 2
  /\ mf.tasks[1].call.inner.calls = 3
  /\ mf.tasks[20].call.inner.calls = 2
  /\ \E q \in Promises(mf) : mf.tasks[q].result = Pending

\* C8: the input is cut into consecutive windows of 20 urls, the last one
\* possibly shorter; every url is processed in exactly one window (the
\* operations started so far are one for each place of a prefix of the
\* input, and for every place once the call is done) and at most 20
\* single-feed operations are in flight at any moment.
C8_WindowsOfTwenty ==
  /\ Cardinality({p \in 1..Len(mf.tasks) : mf.tasks[p].result = Pending}) <= 20
  /\ mf.pc \in {"window", "delay"} =>
       /\ mf.i = 20 * (Len(mf.windows) - 1)
       /\ mf.wlen = Min(20, NumUrls - mf.i)
       /\ mf.wlen >= 1
       /\ Len(mf.tasks) = mf.i + mf.wlen
  /\ Len(mf.tasks) <= NumUrls
  /\ mf.pc = "done" => Len(mf.tasks) = NumUrls
  /\ \A p \in 1..Len(mf.tasks) :
       /\ mf.tasks[p].url = mf.feedUrls[p]
       /\ mf.tasks[p].outer.calls = 1

C8_Witness ==
  /\ mf.pc = "window"
  /\ Len(mf.windows) = 2
  /\ NumUrls = 41
  /\ Cardinality({p \in 1..Len(mf.tasks) : mf.tasks[p].result = Pending}) = 20

\* The Albums of the tasks in the order in which the tasks settled.
RECURSIVE AlbumsInOrder(_)
AlbumsInOrder(ps) ==
  IF ps = <<>> THEN <<>>
  ELSE (IF IsSuccessful(mf.tasks[Head(ps)].result)
        THEN <<mf.tasks[Head(ps)].result.value>> ELSE <<>>)
         \o AlbumsInOrder(Tail(ps))

\* C9 as stated: the result lists the windows in order and, within a window,
\* the Albums in the order in which their operations completed.
C9_CompletionOrder ==
  mf.pc = "done" => mf.results = AlbumsInOrder(mf.settled)

\* C9 as amended: the result lists the windows in order and, within a
\* window, the Albums in the order of their urls in the input, whatever the
\* order in which their operations completed.  (Every Album has a place in
\* the input and every two neighbours are in the order of their places,
\* hence so are every two Albums.)
C9_WindowThenInputOrder ==
  /\ \A k \in 1..Len(mf.results) : PlacesOf(mf.results[k]) # {}
  /\ \A k \in 1..(Len(mf.results) - 1) :
       \A p \in PlacesOf(mf.results[k]), q \in PlacesOf(mf.results[k + 1]) :
         /\ (p - 1) \div 20 <= (q - 1) \div 20
         /\ p < q

C9_Witness ==
  /\ mf.pc = "done"
  /\ Len(mf.results) = NumUrls
  /\ \E j, k \in 1..Len(mf.settled) :
       /\ j < k
       /\ mf.settled[j] > mf.settled[k]
       /\ (mf.settled[j] - 1) \div 20 = (mf.settled[k] - 1) \div 20

\* C10: a wait of 50 ms lies between every two consecutive windows and
\* nowhere else: ceil(n/20) - 1 waits for n > 0 urls, none after the last
\* window and none when n <= 20.
C10_DelayBetweenWindows ==
  /\ \A j \in 1..Len(mf.waits) : mf.waits[j] = 50
  /\ NumUrls <= 20 => mf.waits = <<>>
  /\ (mf.pc = "done" /\ NumUrls > 0) =>
       Len(mf.waits) = (NumUrls + 19) \div 20 - 1
  /\ mf.pc = "delay" =>
       /\ Len(mf.waits) = Len(mf.windows)
       /\ \A p \in 1..Len(mf.tasks) : mf.tasks[p].result # Pending
       /\ Len(mf.tasks) < NumUrls
  /\ mf.pc = "window" => Len(mf.waits) = Len(mf.windows) - 1

C10_Witness ==
  /\ mf.pc = "done"
  /\ NumUrls = 41
  /\ mf.waits = <<50, 50>>

(***************************************************************************)
(* Properties of parsePublisherFeed and parsePublisherFeedAlbums.          *)
(***************************************************************************)
\* The publisher feed cannot be acquired or parsed: its fetch throws, the
\* status is not a success, the document holds a parsererror node or there
\* is no channel element.
PubFeedFails(resp) ==
  \/ resp.throws
  \/ ~resp.ok
  \/ resp.body.parsererror
  \/ resp.body.channels = 0

\* C3: parsePublisherFeed never rejects; on any error while acquiring or
\* parsing the publisher feed it resolves to the empty list.
C3_PublisherFeedNeverRejects ==
  pub.entry = "items" =>
    /\ pub.outcome.status # "rejected"
    /\ (pub.served # <<>> /\ PubFeedFails(pub.served[1])) =>
         pub.outcome = Fulfilled(<<>>)

\* The Albums of the member feeds whose extraction succeeded, one for each.
MemberAlbumsExact ==
  /\ Len(pub.tasks) = Len(pub.musicFeedUrls)
  /\ Len(pub.allAlbums)
       = Cardinality({p \in 1..Len(pub.tasks) :
                        ~AllFail(pub.tasks[p].call.served)})
  /\ \A p \in 1..Len(pub.tasks) :
       Cardinality({k \in 1..Len(pub.allAlbums) :
                      IsAlbumOf(pub.allAlbums[k], pub.tasks[p].url)})
         = IF AllFail(pub.tasks[p].call.served) THEN 0 ELSE 1

\* C4: parsePublisherFeedAlbums never rejects; when the publisher feed
\* cannot be fetched or parsed it resolves to the empty list, and when
\* member feeds fail it resolves to the Albums of exactly the member feeds
\* that succeeded.
C4_PublisherAlbumsNeverReject ==
  pub.entry = "albums" =>
    /\ pub.outcome.status # "rejected"
    /\ (pub.served # <<>> /\ PubFeedFails(pub.served[1])) =>
         pub.outcome = Fulfilled(<<>>)
    /\ (pub.pc = "done" /\ pub.served # <<>> /\ ~PubFeedFails(pub.served[1])) =>
         /\ pub.outcome = Fulfilled(pub.allAlbums)
         /\ MemberAlbumsExact

\* The member operations of the running window that have not settled.
PubInFlight ==
  {p \in 1..Len(mf.tasks) : mf.tasks[p].result.status = "pending"}

\* C11: parsePublisherFeedAlbums resolves the member feeds in consecutive
\* windows of 5 urls with a wait of 500 ms between windows when there are at
\* most 20 member urls, and of 8 urls with a wait of 300 ms when there are
\* more; a window starts only after every operation of the windows before it
\* settled, so at most 5 (8) member operations are in flight, and no wait
\* follows the last window.
C11_PublisherWindows ==
  LET n == Len(pub.musicFeedUrls)
      w == IF n <= 20 THEN 5 ELSE 8
      d == IF n <= 20 THEN 500 ELSE 300
      windows == (n + w - 1) \div w
  IN (pub.entry = "albums" /\ pub.pc \in {"batch", "delay", "done"} /\ n > 0) =>
       /\ pub.i = w * (pub.calls - 1)
       /\ pub.calls <= windows
       /\ \A k \in 1..Len(pub.waits) : pub.waits[k] = d
       /\ mf.waits = <<>>
       /\ \A p \in 1..Len(pub.tasks) : pub.tasks[p].result.status # "pending"
       /\ pub.pc = "batch" =>
            /\ Len(pub.tasks) = pub.i
            /\ Len(pub.waits) = pub.calls - 1
            /\ mf.feedUrls = [k \in 1..Min(w, n - pub.i) |->
                                pub.musicFeedUrls[pub.i + k]]
            /\ Len(mf.tasks) <= Len(mf.feedUrls)
            /\ Cardinality(PubInFlight) <= w
       /\ pub.pc = "delay" =>
            /\ pub.calls < windows
            /\ Len(pub.waits) = pub.calls
            /\ Len(pub.tasks) = pub.i + w
       /\ pub.pc = "done" =>
            /\ pub.calls = windows
            /\ Len(pub.waits) = windows - 1
            /\ Len(pub.tasks) = n

\* More than 20 member feeds were resolved in windows of 8 with two waits,
\* and the call returned without a third.
C11_Witness ==
  /\ pub.entry = "albums"
  /\ pub.pc = "done"
  /\ Len(pub.musicFeedUrls) > PubLargeAbove
  /\ pub.calls = 3
  /\ pub.waits = <<PubDelayLarge, PubDelayLarge>>
  /\ Len(pub.tasks) = Len(pub.musicFeedUrls)

\* The places, in the document the publisher feed served, of the entries
\* with medium "music" that carry a feedGuid and a feedUrl.
MusicPlaces ==
  LET remote == pub.served[1].body.remote
  IN {j \in 1..Len(remote) :
        /\ remote[j].medium = "music"
        /\ remote[j].feedGuid # 0
        /\ remote[j].feedUrl # 0}

\* C12: parsePublisherFeed returns exactly the remote-item entries of the
\* channel whose medium is "music" and that carry both a feedGuid and a
\* feedUrl, in document order; entries of another medium and music entries
\* without feedGuid or feedUrl are excluded.
C12_PublisherMusicItems ==
  (/\ pub.entry = "items"
   /\ pub.served # <<>>
   /\ ~PubFeedFails(pub.served[1])) =>
    LET remote == pub.served[1].body.remote
        items == pub.outcome.value
    IN /\ pub.outcome.status = "fulfilled"
       /\ Len(items) = Cardinality(MusicPlaces)
       /\ \A j \in MusicPlaces :
            items[Cardinality({i \in MusicPlaces : i <= j})] = remote[j]

\* A publisher feed with member feeds, an entry of another medium, a music
\* entry without feedGuid and one without feedUrl was parsed.
C12_Witness ==
  /\ pub.entry = "items"
  /\ pub.pc = "done"
  /\ pub.served # <<>>
  /\ ~PubFeedFails(pub.served[1])
  /\ Len(pub.outcome.value) >= 3
  /\ LET remote == pub.served[1].body.remote
     IN /\ \E j \in 1..Len(remote) :
             remote[j].medium # "music" /\ remote[j].feedGuid # 0 /\ remote[j].feedUrl # 0
        /\ \E j \in 1..Len(remote) :
             remote[j].medium = "music" /\ remote[j].feedGuid = 0
        /\ \E j \in 1..Len(remote) :
             remote[j].medium = "music" /\ remote[j].feedUrl = 0

(***************************************************************************)
(* Properties of the tracks of an Album.                                   *)
(***************************************************************************)
\* The feed the stand-alone parseAlbumFeed call was served first.
ServedItems == ac.served[1].body.items

\* C13: for a well-formed feed with N items the Album has exactly N tracks,
\* the i-th track is built from the i-th item in document order and has
\* trackNumber i (from 1, without gaps), and a track whose item has no
\* title gets the title "Track i".
C13_TracksFollowItems ==
  (ac.served # <<>> /\ ~Fails(ac.served[1])) =>
    /\ ac.result.status = "fulfilled"
    /\ ac.result.value # Null
    /\ LET tracks == ac.result.value.tracks
       IN /\ Len(tracks) = Len(ServedItems)
          /\ \A i \in 1..Len(tracks) :
               /\ tracks[i].trackNumber = i
               /\ tracks[i].duration = TrackDuration(ServedItems[i])
               /\ IF ServedItems[i].title = <<>> \/ Trim(ServedItems[i].title[1]) = <<>>
                  THEN tracks[i].title
                         = <<"T", "r", "a", "c", "k", " ", Digits[i + 1]>>
                  ELSE tracks[i].title = Trim(ServedItems[i].title[1])

\* An Album of two tracks whose first item has a title and whose second
\* has none.
C13_Witness ==
  /\ ac.served # <<>>
  /\ ac.result.status = "fulfilled"
  /\ ac.result.value # Null
  /\ Len(ServedItems) = 2
  /\ ServedItems[1].title # <<>>
  /\ ServedItems[2].title = <<>>
  /\ ServedItems[1].duration # ServedItems[2].duration
  /\ ac.result.value.tracks[1].title = <<"A">>
  /\ ac.result.value.tracks[2].title = <<"T", "r", "a", "c", "k", " ", "2">>

(***************************************************************************)
(* Properties of feeds without items.                                      *)
(***************************************************************************)
\* The response is a feed with a channel and no item.
IsEmptyFeed(resp) == ~Fails(resp) /\ Len(resp.body.items) = 0

\* The tasks of the batch whose first fetch was served a feed without items.
EmptyFeedPlaces ==
  {p \in 1..Len(mf.tasks) :
     /\ mf.tasks[p].call.served # <<>>
     /\ IsEmptyFeed(mf.tasks[p].call.served[1])}

\* The failures the batch logged, over all its windows.
RECURSIVE LoggedFailures(_)
LoggedFailures(log) ==
  IF log = <<>> THEN 0 ELSE Head(log).count + LoggedFailures(Tail(log))

\* C14: a feed with a channel and zero items is a success.  parseAlbumFeed
\* resolves at its first attempt, without a retry, to a non-null Album whose
\* track list is empty; parseMultipleFeeds includes that Album in its result
\* and does not count it as failed; null is returned only when the
\* extraction failed.
C14_EmptyFeedIsSuccess ==
  /\ \A p \in EmptyFeedPlaces :
       LET t == mf.tasks[p]
       IN /\ Len(t.call.served) = 1
          /\ t.call.inner.calls = 1
          /\ t.call.inner.trace = << <<"call", 1>> >>
          /\ t.call.result.status = "fulfilled"
          /\ t.call.result.value # Null
          /\ t.call.result.value.tracks = <<>>
          /\ t.result = t.call.result
  /\ \A p \in 1..Len(mf.tasks) :
       mf.tasks[p].call.result = Fulfilled(Null)
         => AllFail(mf.tasks[p].call.served)
  /\ mf.pc = "done" =>
       /\ LoggedFailures(mf.failLog) = Cardinality(FailedPlaces)
       /\ \A p \in EmptyFeedPlaces :
            \E k \in 1..Len(mf.results) :
              mf.results[k] = mf.tasks[p].call.result.value

\* A batch returned whose feeds include one without items, served at the
\* first fetch while the fetch of its neighbour was answered after those of
\* the rest of the window, and a feed that failed for good.
C14_Witness ==
  /\ mf.pc = "done"
  /\ FailedPlaces # {}
  /\ mf.failLog # <<>>
  /\ \E p \in EmptyFeedPlaces :
       /\ p \in racy
       /\ \E k \in 1..Len(mf.results) :
            /\ mf.results[k].title = mf.tasks[p].url
            /\ mf.results[k].tracks = <<>>

(***************************************************************************)
(* Properties of durations.                                                *)
(***************************************************************************)
\* The canonical form minutes:SS: a decimal number without leading zeros, a
\* colon, and two digits whose value is below 60.
IsCanonical(s) ==
  LET parts == Split(s, ":")
  IN /\ Len(parts) = 2
     /\ AllDigits(parts[1])
     /\ (Len(parts[1]) = 1 \/ parts[1][1] # "0")
     /\ Len(parts[2]) = 2
     /\ AllDigits(parts[2])
     /\ DigitsValue(parts[2]) < 60

\* A duration text of one of the formats the normalizer converts: a number
\* of seconds above 0, M:SS with SS below 60, or H:MM:SS with MM and SS
\* below 60, every segment a string of digits.
IsDurationFormat(s) ==
  LET parts == Split(s, ":")
  IN /\ \A k \in 1..Len(parts) : AllDigits(parts[k])
     /\ \/ Len(parts) = 1 /\ DigitsValue(parts[1]) > 0
        \/ Len(parts) = 2 /\ DigitsValue(parts[2]) < 60
        \/ /\ Len(parts) = 3
           /\ DigitsValue(parts[2]) < 60
           /\ DigitsValue(parts[3]) < 60

\* The tracks of the Album the stand-alone parseAlbumFeed call returned.
ReturnedTracks ==
  IF ac.result.status = "fulfilled" /\ ac.result.value # Null
  THEN ac.result.value.tracks ELSE <<>>

\* C15 as claimed: every track of every returned Album has its duration in
\* canonical minutes:SS form, whatever text the duration tag of its item
\* holds.
C15_DurationsCanonical ==
  \A i \in 1..Len(ReturnedTracks) : IsCanonical(ReturnedTracks[i].duration)

\* C15 amended: the duration of a track is in canonical form whenever its
\* item has no duration text or one of a format the normalizer converts;
\* for any other text it is either canonical or that text, trimmed and
\* otherwise unchanged.
C15_DurationsCanonicalOrRaw ==
  \A i \in 1..Len(ReturnedTracks) :
    LET item == ServedItems[i]
        text == IF item.itunesDuration # <<>> /\ Trim(item.itunesDuration[1]) # <<>>
                THEN Trim(item.itunesDuration[1])
                ELSE IF item.duration # <<>> /\ Trim(item.duration[1]) # <<>>
                THEN Trim(item.duration[1])
                ELSE <<>>
        d == ReturnedTracks[i].duration
    IN /\ IsCanonical(d) \/ d = text
       /\ (text = <<>> \/ IsDurationFormat(text)) => IsCanonical(d)
       /\ text = <<>> => d = <<"0", ":", "0", "0">>

\* An Album one of whose tracks has the converted duration "2:05" of the
\* text "125" and the other the text "abc" as it stands in the feed.
C15_Witness ==
  /\ Len(ReturnedTracks) = 2
  /\ ServedItems[1].itunesDuration = <<>>
  /\ ServedItems[1].duration = << <<"1", "2", "5">> >>
  /\ ReturnedTracks[1].duration = <<"2", ":", "0", "5">>
  /\ ServedItems[2].itunesDuration = << <<"a", "b", "c">> >>
  /\ ReturnedTracks[2].duration = <<"a", "b", "c">>

(***************************************************************************)
(* Properties of extractCoverArt.                                          *)
(***************************************************************************)
\* A url of the form scheme://host/path, without query string or fragment.
IsBareUrl(s) ==
  s.scheme # "" /\ s.host # "" /\ s.query = "" /\ s.fragment = ""

\* The non-empty strings the document offers as an image: the href of an
\* itunes:image of the channel or of an item, the text of image/url, the
\* url and href of the image element, the url of a media:content or an
\* enclosure of an image type, the src of an img tag in the description.
NamedImages(channel, items) ==
  LET ofChannel ==
        {channel.itunes[k] : k \in 1..Len(channel.itunes)}
          \cup {channel.descriptionImg[k] : k \in 1..Len(channel.descriptionImg)}
          \cup UNION {{TrimText(channel.image[k].urlText[j]) :
                         j \in 1..Len(channel.image[k].urlText)}
                        \cup {channel.image[k].url, channel.image[k].href} :
                      k \in 1..Len(channel.image)}
      ofItem(item) ==
        {item.itunes[k] : k \in 1..Len(item.itunes)}
          \cup {item.media[k].url :
                  k \in {j \in 1..Len(item.media) :
                           item.media[j].type \in {"image/jpeg", "image/png"}}}
          \cup {item.enclosure[k].url :
                  k \in {j \in 1..Len(item.enclosure) :
                           item.enclosure[j].type \in {"image/jpeg", "image/png"}}}
  IN (ofChannel \cup UNION {ofItem(items[k]) : k \in 1..Len(items)})
       \ {EmptyString}

C17_StrategyOrder ==
  pf.done =>
    LET channel == pf.input.channel
        items == pf.input.items
        first == IF channel.itunes = <<>> THEN <<>> ELSE OrNull(channel.itunes[1])
        candidate ==
          FirstOf(first,
                  FirstOf(Method2(channel),
                          FirstOf(Method3(channel),
                                  FirstOf(Method4(items), Method5(channel)))))
    IN pf.output = IF candidate # <<>> /\ UrlParses(candidate[1])
                   THEN <<BareUrl(candidate[1])>> ELSE candidate

(***************************************************************************)
(* Properties of normalizeDuration.                                        *)
(***************************************************************************)
\* out is m, a colon, and s written with two digits.
Renders(out, m, s) ==
  /\ IsCanonical(out)
  /\ DigitsValue(Split(out, ":")[1]) = m
  /\ DigitsValue(Split(out, ":")[2]) = s

\* C18: for every input made of decimal digits only, of value n >= 0,
\* normalizeDuration returns floor(n / 60), a colon, and n mod 60 padded
\* with a zero to two digits.
C18_SecondsToMinSec ==
  (pf.done /\ AllDigits(pf.input)) =>
    LET n == DigitsValue(pf.input)
    IN Renders(pf.output, n \div 60, n % 60)

\* The three segments of the input, when it is H:MM:SS with every segment
\* a string of digits, MM below 60 and SS below 60.
IsHoursMinSec(s) ==
  LET parts == Split(s, ":")
  IN /\ Len(parts) = 3
     /\ \A k \in 1..3 : AllDigits(parts[k])
     /\ DigitsValue(parts[2]) < 60
     /\ DigitsValue(parts[3]) < 60

\* C19: for every input H:MM:SS with H >= 0, 0 <= MM < 60 and
\* 0 <= SS < 60, normalizeDuration returns H * 60 + MM, a colon, and SS
\* padded with a zero to two digits.
C19_HoursToMinutes ==
  (pf.done /\ IsHoursMinSec(pf.input)) =>
    LET parts == Split(pf.input, ":")
    IN Renders(pf.output,
               DigitsValue(parts[1]) * 60 + DigitsValue(parts[2]),
               DigitsValue(parts[3]))

\* "1:02:03" gave "62:03".
C19_Witness ==
  /\ pf.done
  /\ pf.input = <<"1", ":", "0", "2", ":", "0", "3">>
  /\ pf.output = <<"6", "2", ":", "0", "3">>

\* C20: normalizeDuration returns a canonical input M:SS (M without leading
\* zeros, SS two digits below 60) unchanged, so applying it to one of its
\* canonical outputs changes nothing.
C20_CanonicalUnchanged ==
  pf.done =>
    /\ IsCanonical(pf.input) => pf.output = pf.input
    /\ IsCanonical(pf.output) => normalizeDuration(pf.output) = pf.output

\* The canonical input "12:07" was returned as it is.
C20_Witness ==
  /\ pf.done
  /\ pf.input = <<"1", "2", ":", "0", "7">>
  /\ pf.output = pf.input

(***************************************************************************)
(* Properties of cleanHtmlContent.                                         *)
(***************************************************************************)
\* The entity that starts the text s, if there is one.
EntityAt(s) ==
  {k \in 1..Len(Entities) :
     /\ Len(s) >= Len(Entities[k].name)
     /\ SubSeq(s, 1, Len(Entities[k].name)) = Entities[k].name}

\* One pass over s from left to right in which every entity met is
\* replaced by its character and the scan goes on after it: nothing the
\* pass has written is read again.
RECURSIVE DecodeOnce(_)
DecodeOnce(s) ==
  IF s = <<>> THEN <<>>
  ELSE IF EntityAt(s) # {}
  THEN LET k == CHOOSE e \in EntityAt(s) : TRUE
       IN <<Entities[k].char>>
            \o DecodeOnce(SubSeq(s, Len(Entities[k].name) + 1, Len(s)))
  ELSE <<Head(s)>> \o DecodeOnce(Tail(s))

\* C21: cleanHtmlContent decodes each entity of its input at most once;
\* the text that the decoding of an entity produced is not decoded again in
\* the same call, so "&amp;lt;" yields "&lt;".
C21_DecodesOnce ==
  (pf.done /\ pf.input # <<>> /\ pf.input[1] # <<>>) =>
    pf.output = <<Trim(DecodeOnce(RemoveTags(pf.input[1])))>>

\* C22 as claimed: whenever cleanHtmlContent(s) is defined, cleaning that
\* result again returns it unchanged.
C22_Idempotent ==
  (pf.done /\ pf.output # <<>>) => cleanHtmlContent(pf.output) = pf.output

\* A text that is already clean: not empty, without white space at its
\* ends, without a '<' that a '>' follows, and without any of the
\* entities.
IsCleanText(t) ==
  /\ t # <<>>
  /\ t[1] # " " /\ t[Len(t)] # " "
  /\ ~\E i, j \in 1..Len(t) : i < j /\ t[i] = "<" /\ t[j] = ">"
  /\ \A i \in 1..Len(t) : EntityAt(SubSeq(t, i, Len(t))) = {}

\* C22 amended: cleaning a text that is already clean returns it
\* unchanged; so a result that is clean is a fixed point.
C22_CleanTextUnchanged ==
  pf.done =>
    /\ (pf.input # <<>> /\ IsCleanText(pf.input[1])) => pf.output = pf.input
    /\ (pf.output # <<>> /\ IsCleanText(pf.output[1])) =>
         cleanHtmlContent(pf.output) = pf.output

\* "<b>Hi</b> &amp; Bye" was cleaned to "Hi & Bye", a clean text.
C22_Witness ==
  /\ pf.done
  /\ pf.input \in {<<t>> : t \in ExampleTexts}
  /\ pf.output = << <<"H", "i", " ", "&", " ", "B", "y", "e">> >>
  /\ IsCleanText(pf.output[1])

(***************************************************************************)
(* Properties of the feed fetches.                                         *)
(***************************************************************************)
\* The character an escape sequence stands for; "%" for one that is none.
UnescapeOf(code) ==
  IF \E j \in 1..Len(Escapes) : Escapes[j].code = code
  THEN Escapes[CHOOSE j \in 1..Len(Escapes) : Escapes[j].code = code].char
  ELSE "%"

\* The text a parameter value of a query string stands for.
RECURSIVE DecodeParameter(_)
DecodeParameter(s) ==
  IF s = <<>> THEN <<>>
  ELSE IF Head(s) = "%" /\ Len(s) >= 3
  THEN <<UnescapeOf(SubSeq(s, 1, 3))>> \o DecodeParameter(SubSeq(s, 4, Len(s)))
  ELSE <<Head(s)>> \o DecodeParameter(Tail(s))

\* The attempts a call has started.
Attempts(c) ==
  IF Retried(c.entry) THEN c.frame.calls
  ELSE IF c.input = <<>> THEN 0 ELSE 1

\* C23: every fetch of a call of parseAlbumFeed, parsePC20Feed,
\* parsePublisherFeed or parsePublisherFeedInfo, whatever the attempt, is a
\* fetch of the feed url itself on a server and in a browser when that url
\* starts with /api/fetch-rss; any other fetch in a browser is a fetch of
\* /api/fetch-rss?url=<p> where p holds unreserved characters and escape
\* sequences only and stands for the feed url.  Each attempt issues one
\* fetch unless the url cannot be encoded.
C23_FetchTargets ==
  pf.entry \in FeedEntries =>
    /\ \A k \in 1..Len(pf.requests) :
         LET q == pf.requests[k]
             n == Len(ProxyPath \o ProxyQuery)
             p == SubSeq(q, n + 1, Len(q))
         IN IF pf.isServer \/ StartsWith(pf.feedUrl, ProxyPath)
            THEN q = pf.feedUrl
            ELSE /\ StartsWith(q, ProxyPath \o ProxyQuery)
                 /\ \A j \in 1..Len(p) : p[j] \in Unreserved \cup {"%"}
                 /\ DecodeParameter(p) = pf.feedUrl
    /\ Len(pf.requests) =
         IF ~pf.isServer /\ ~StartsWith(pf.feedUrl, ProxyPath)
              /\ Includes(pf.feedUrl, LoneSurrogate)
         THEN 0 ELSE Attempts(pf)

\* In a browser the third attempt of parsePC20Feed("http://h/a?b=c&d")
\* fetched "/api/fetch-rss?url=http%3A%2F%2Fh%2Fa%3Fb%3Dc%26d".
C23_Witness ==
  /\ pf.entry = "parsePC20Feed"
  /\ ~pf.isServer
  /\ pf.pc = "done"
  /\ pf.feedUrl = <<"h", "t", "t", "p", ":", "/", "/", "h", "/", "a", "?", "b", "=", "c",
        "&", "d">>
  /\ Len(pf.requests) = 3
  /\ pf.requests[3] =
       <<"/", "a", "p", "i", "/", "f", "e", "t", "c", "h", "-", "r", "s", "s",
         "?", "u", "r", "l", "=", "h", "t", "t", "p", "%", "3", "A", "%", "2",
         "F", "%", "2", "F", "h", "%", "2", "F", "a", "%", "3", "F", "b", "%",
         "3", "D", "c", "%", "2", "6", "d">>

\* A response on which an attempt of parsePC20Feed fails: the fetch threw,
\* a status that is no success, an empty body, a body without '<' or '>',
\* a text the parser rejects.
PC20Fails(resp) ==
  \/ resp.throws
  \/ ~resp.ok
  \/ resp.body.blank
  \/ ~resp.body.lt
  \/ ~resp.body.gt
  \/ resp.body.parsererror
  \/ resp.body.channels = 0

WaitsOf(trace) == SelectSeq(trace, LAMBDA e : e[1] = "wait")

\* C24: the promise of parsePC20Feed is never fulfilled with null, and a
\* call all of whose attempts failed made exactly 3 attempts, waited 1000 ms
\* and then 2000 ms, and is rejected with the error of the third attempt.
C24_PC20FeedRejects ==
  pf.entry = "parsePC20Feed" =>
    /\ pf.outcome.status = "fulfilled" => pf.outcome.value # Null
    /\ (pf.pc = "done" /\ \A k \in 1..Len(pf.served) : PC20Fails(pf.served[k]))
         => /\ pf.frame.calls = 3
            /\ Len(pf.frame.fnLog) = 3
            /\ WaitsOf(pf.frame.trace) = << <<"wait", 1000>>, <<"wait", 2000>> >>
            /\ pf.outcome.status = "rejected"
            /\ pf.outcome.reason = pf.frame.fnLog[3].reason
            /\ Len(pf.served) = 3 =>
                 pf.frame.fnLog[3] = PC20Attempt(pf.served[3])

\* A call whose fetch threw, then received a 500 and then a 429 is rejected
\* with the rate limit error of the third attempt.
C24_Witness ==
  /\ pf.entry = "parsePC20Feed"
  /\ pf.pc = "done"
  /\ pf.served = <<FetchThrows, HttpResponse(500, TextBody),
                   HttpResponse(429, TextBody)>>
  /\ pf.outcome = Rejected("Rate limited while fetching RSS feed")

(***************************************************************************)
(* Properties of the retries, the order, the progress and the failure log  *)
(* of parseMultipleFeeds.                                                  *)
(***************************************************************************)
\* C25: the withRetry around parseAlbumFeed in a task of parseMultipleFeeds
\* never retries: it calls parseAlbumFeed once, never calls onRetry and
\* never sets a timer; no task settles as rejected; and a feed all of whose
\* fetches fail is fetched exactly 3 times before its task settles with
\* null.
C25_OuterRetryNeverRetries ==
  \A p \in 1..Len(mf.tasks) :
    LET t == mf.tasks[p]
    IN /\ t.outer.calls = 1
       /\ t.outer.trace = << <<"call", 1>> >>
       /\ t.result.status # "rejected"
       /\ Len(t.call.served) <= 3
       /\ (t.result # Pending /\ AllFail(t.call.served)) =>
            /\ Len(t.call.served) = 3
            /\ t.call.inner.calls = 3
            /\ t.result = Fulfilled(Null)

\* A call returned after a feed failed three times: its task called
\* parseAlbumFeed once and settled with null.
C25_Witness ==
  /\ mf.pc = "done"
  /\ \E p \in 1..Len(mf.tasks) :
       /\ mf.tasks[p].result = Fulfilled(Null)
       /\ Len(mf.tasks[p].call.served) = 3
       /\ AllFail(mf.tasks[p].call.served)
       /\ mf.tasks[p].outer.calls = 1
       /\ mf.tasks[p].outer.pc = "settled"

\* The places of the input, in order, whose extraction did not fail.
SucceededPlaces ==
  SelectSeq([p \in 1..Len(mf.tasks) |-> p],
            LAMBDA p : ~AllFail(mf.tasks[p].call.served))

\* C26: the value parseMultipleFeeds returns is the input list without the
\* urls that failed, each url that is left replaced by its Album: the k-th
\* Album is the Album of the k-th url that did not fail, whatever the order
\* in which the fetches completed.
C26_InputOrderKept ==
  mf.pc = "done" =>
    /\ Len(mf.results) = Len(SucceededPlaces)
    /\ \A k \in 1..Len(mf.results) :
         IsAlbumOf(mf.results[k], mf.feedUrls[SucceededPlaces[k]])

\* A call returned some Albums after a feed failed and two feeds that
\* succeeded completed in the reverse of their order in the input.
C26_Witness ==
  /\ mf.pc = "done"
  /\ Len(mf.results) >= 2
  /\ \E p \in 1..Len(mf.tasks) : mf.tasks[p].result = Fulfilled(Null)
  /\ \E j, k \in 1..Len(mf.settled) :
       /\ j < k
       /\ mf.settled[j] > mf.settled[k]
       /\ IsSuccessful(mf.tasks[mf.settled[j]].result)
       /\ IsSuccessful(mf.tasks[mf.settled[k]].result)

\* C27: when every fetch settles and every timer fires, a call of
\* parseMultipleFeeds is eventually resolved; on the empty list it is
\* resolved with [] from the start, without a fetch and without a timer;
\* and as long as a fetch of the running window has not settled, no step
\* resolves the call or starts another window: nothing but the fetches and
\* the timers moves the call.
C27_ResolvesWhenAllSettle ==
  /\ <>(mf.pc = "done" /\ mf.outcome.status = "fulfilled")
  /\ [](NumUrls = 0 =>
          mf.outcome = Fulfilled(<<>>) /\ mf.tasks = <<>> /\ mf.waits = <<>>)
  /\ [][(\E p \in Promises(mf) : mf.tasks[p].result = Pending)
          => mf'.outcome = Pending /\ mf'.windows = mf.windows]_vars

\* A call on more than 20 urls resolved after a feed of its first window
\* failed three times, two backoff timers and the timer between the windows
\* having fired.
C27_Witness ==
  /\ mf.pc = "done"
  /\ mf.outcome.status = "fulfilled"
  /\ Len(mf.windows) = 2
  /\ mf.waits = <<BatchDelay>>
  /\ \E p \in 1..batchSize :
       /\ Len(mf.tasks[p].call.served) = 3
       /\ WaitsOf(mf.tasks[p].call.inner.trace)
            = << <<"wait", 1000>>, <<"wait", 2000>> >>

\* The places, in order, of the feeds of window w (from 1) that failed.
FailedOfWindow(w) ==
  LET first == (w - 1) * batchSize
      size == Min(batchSize, NumUrls - first)
  IN SelectSeq([k \in 1..size |-> first + k],
               LAMBDA p : IsFailed(mf.tasks[p].result))

\* C28: the log entry of a window in which f feeds failed holds min(f, 3)
\* detailed lines, the k-th of them naming the url of the k-th feed of the
\* window that failed, and counts the f - 3 other failures when f > 3.
C28_FailureLogNamesFailedFeeds ==
  \A j \in 1..Len(mf.failLog) :
    LET e == mf.failLog[j]
        failed == FailedOfWindow(e.window)
    IN /\ e.count = Len(failed)
       /\ Len(e.urls) = Min(e.count, 3)
       /\ \A k \in 1..Len(e.urls) : e.urls[k] = mf.feedUrls[failed[k]]
       /\ e.more = IF e.count > 3 THEN e.count - 3 ELSE 0

(***************************************************************************)
(* Properties of the publisher link of parseAlbumFeed.                     *)
(***************************************************************************)
\* The podcast:remoteItem elements with medium "publisher" that are
\* children of the channel itself, in document order.
DirectPublisherItems(remote) ==
  SelectSeq(remote, LAMBDA r : r.parent = "channel" /\ r.medium = "publisher")

\* C29: the Album of parseAlbumFeed has a publisher link exactly when the
\* first remote item with medium "publisher" among the children of the
\* channel itself, those of a podroll container left aside, has a feedGuid
\* and a feedUrl, and the link is that of this item.
C29_PublisherFromChannelChild ==
  (ac.result.status = "fulfilled" /\ ac.result.value # Null) =>
    LET remote == ac.served[Len(ac.served)].body.remote
        direct == DirectPublisherItems(remote)
    IN ac.result.value.publisher =
         IF direct # <<>> /\ direct[1].feedGuid # 0 /\ direct[1].feedUrl # 0
         THEN <<[feedGuid |-> direct[1].feedGuid, feedUrl |-> direct[1].feedUrl,
                 medium |-> "publisher"]>>
         ELSE <<>>

(***************************************************************************)
(* Properties of the query hooks.                                          *)
(***************************************************************************)
\* The required parameter of a hook is there: a q or a url that is neither
\* undefined nor '', an id that is neither undefined nor 0; the hooks of
\* the recent lists require none.
RequiredPresent(hook, params) ==
  IF hook \in {"useSearchPodcasts", "useSearchEpisodes"}
  THEN params.q \notin {<<>>, << <<>> >>}
  ELSE IF hook = "usePodcast" THEN params.id \notin {<<>>, <<0>>}
  ELSE IF hook = "usePodcastByUrl" THEN params.url \notin {<<>>, << <<>> >>}
  ELSE IF hook = "useEpisodes"
  THEN params.id \notin {<<>>, <<0>>} \/ params.url \notin {<<>>, << <<>> >>}
  ELSE TRUE

\* C30: a hook that builds a client, called without a config, throws the
\* 'configuration is required' error and registers no query; so a
\* registered query has a config and is enabled exactly when the required
\* parameter of the hook is there, and every query that ran was issued with
\* a config and with that parameter.
C30_ConfigRequiredBeforeQuery ==
  pf.hook \in ClientHooks =>
    /\ pf.config = <<>> =>
         /\ pf.thrown
         /\ pf.error = ConfigRequired
         /\ ~pf.registered
    /\ pf.registered =>
         /\ pf.config # <<>>
         /\ pf.enabled = RequiredPresent(pf.hook, pf.params)
    /\ \A k \in 1..Len(pf.issued) :
         /\ pf.issued[k].config # <<>>
         /\ RequiredPresent(pf.hook, pf.issued[k].params)

\* useSearchPodcasts ran a query for "a" with a config, and at the next
\* render, without a config, threw: no query is registered any more.
C30_Witness ==
  /\ pf.hook = "useSearchPodcasts"
  /\ pf.renders = 2
  /\ pf.config = <<>>
  /\ pf.thrown
  /\ pf.error = ConfigRequired
  /\ ~pf.registered
  /\ Len(pf.issued) = 1
  /\ pf.issued[1].method = "searchPodcasts"
  /\ pf.issued[1].params.q = << <<"a">> >>

====
